---- MODULE Spec2Model ----
(***************************************************************************)
(* State-machine model of the photometric-stereo dataset generator         *)
(* (dataset_generator.py), of the parametric mesh generators               *)
(* (scene_generator.py), of the BRDF loader and material approximation     *)
(* (brdf_renderer.py) and of the web render controller (web_render.py).    *)
(*                                                                         *)
(* Conventions.                                                            *)
(*  - A Python str that the code takes apart (paths, dataset names) is a   *)
(*    sequence of one-character strings.                                   *)
(*  - A Python dict is a TLA+ record; its keys are the record's DOMAIN.    *)
(*  - A float that the code computes from trigonometric functions is kept  *)
(*    as an exact symbolic term <<tag, a, b>> in units of the light        *)
(*    distance (see generate_light_positions).                             *)
(*  - A file on disk carries, next to its content, the number of the       *)
(*    generation run that wrote it (writtenBy): a history tag used only    *)
(*    by the properties.                                                   *)
(***************************************************************************)
EXTENDS Integers, Sequences, FiniteSets, TLC

VARIABLES
    MITSUBA_AVAILABLE,  \* module global set at import (dataset_generator.py:23-34)
    files,              \* the mesh and BRDF files the paths name
    disk,               \* output_base_dir: dataset name -> dataset directory
    runCount,           \* number of generation runs started so far
    pc,                 \* position of the current generation run
    kind,               \* "single" | "custom": which generator the run is
    dataset_name,       \* the run's dataset_name argument
    obj_path,           \* the run's obj_path argument
    brdf_path,          \* the run's brdf_path argument
    args,               \* single run: its num_lights and light_pattern arguments
    light_positions,    \* single run: the sampled LightSet
    lights,             \* custom run: the lights argument
    k,                  \* 1-based index of the next light to render
    result,             \* the run's return value, once pc = "returned"
    renderLog,          \* history: the render steps of the current run
    warnings,           \* history: the logger.warning records of the current run
    lastRun,            \* history: dataset name -> its most recent run (0: none)
    bpc,                \* position of generate_batch_datasets
    batch,              \* arguments of the current batch call
    bidx,               \* index of the next (obj, brdf) pair of the batch
    results,            \* the batch's results dict, as a sequence of items
    count,              \* the batch's count variable
    attempts,           \* history: the pairs the batch has attempted
    outcomes,           \* history: what each attempted dataset returned
    mesh,               \* state of the current mesh generator call
    brdf_cache,         \* MERLBRDFLoader.brdf_cache: path -> loaded table
    opened,             \* history: path -> how often load_brdf has opened it
    loaded,             \* history: path -> its first successful load
    call,               \* the last direct call of the loader, of a material
                        \* function or of the light sampler
    threads,            \* thread -> its position inside load_brdf
    web                 \* the web render controller, its request handlers and
                        \* its render threads

orchVars == <<MITSUBA_AVAILABLE, files, disk, runCount, pc, kind, dataset_name,
              obj_path, brdf_path, args, light_positions, lights, k, result,
              renderLog, warnings, lastRun>>
batchVars == <<bpc, batch, bidx, results, count, attempts, outcomes>>
brdfVars == <<brdf_cache, opened, loaded, call, threads>>
vars == <<orchVars, batchVars, mesh, brdfVars, web>>

----------------------------------------------------------------------------
(* Bounds of the model *)

MaxLights == 2
MaxRuns == 2
MaxBatchLimit == 2
MaxSub == 4
MaxLoads == 2
MaxSamples == 5
MaxTasks == 2

----------------------------------------------------------------------------
(* Strings and paths *)

RECURSIVE LastIndexOf(_, _)
\* str.rfind(c) with 1-based positions; 0 when c does not occur
LastIndexOf(s, c) ==
    IF s = <<>> THEN 0
    ELSE IF s[Len(s)] = c THEN Len(s)
    ELSE LastIndexOf(SubSeq(s, 1, Len(s) - 1), c)

\* PurePath.name: the final path component
PathName(p) == SubSeq(p, LastIndexOf(p, "/") + 1, Len(p))

\* PurePath.stem: the final component without its last suffix; a leading or
\* a trailing dot is not a suffix separator
PathStem(p) ==
    LET name == PathName(p)
        d == LastIndexOf(name, ".")
    IN  IF 1 < d /\ d < Len(name) THEN SubSeq(name, 1, d - 1) ELSE name

\* f"{obj_name}_{brdf_name}_data"
DatasetNameOf(obj_file, brdf_file) ==
    PathStem(obj_file) \o <<"_">> \o PathStem(brdf_file)
        \o <<"_", "d", "a", "t", "a">>

\* f"light_{i}"
LightName(i) == <<"light_", i>>

\* f"{light_name}.png" as the render steps name it below images/
LightFile(i) == [stem |-> LightName(i), ext |-> "png"]
LightFileJpg(i) == [stem |-> LightName(i), ext |-> "jpg"]
NormalFile == [stem |-> <<"ground_truth_normal", 0>>, ext |-> "png"]

\* f"{dataset_name}\\images\\{light_name}.png": a backslash-separated string
ConfigImagePath(name, i) ==
    [sep |-> "\\", parts |-> <<name, "images", LightFile(i)>>]

RenderImagePathZeroBased(name, i) ==
    [sep |-> "/", parts |-> <<name, "images", LightFile(i - 1)>>]

\* images_dir / f"{light_name}.png" with images_dir = base / name / "images"
RenderImagePath(name, i) ==
    [sep |-> "/", parts |-> <<name, "images", LightFile(i)>>]

\* the file a path names inside its directory
FileOf(path) == path.parts[Len(path.parts)]

----------------------------------------------------------------------------
(* Input universes *)

ObjA == <<"a", ".", "o">>
ObjDA == <<"d", "/", "a", ".", "o">>
ObjAB == <<"a", "_", "b", ".", "o">>
BrdfC == <<"c", ".", "m">>
BrdfBC == <<"b", "_", "c", ".", "m">>

BrdfGoldRing == <<"g", "o", "l", "d", "_", "r", "i", "n", "g", ".", "m">>
BrdfSteel == <<"S", "t", "e", "e", "l", ".", "m">>

ObjFiles == {ObjA, ObjDA, ObjAB}
BrdfFiles == {BrdfC, BrdfBC}

\* the BRDF files the loader and the material functions are called with
LibBrdfPaths == {BrdfGoldRing, BrdfSteel}

\* every path the model reads
Paths == ObjFiles \cup BrdfFiles \cup LibBrdfPaths

\* every dataset name a run can be given
DatasetNames == {DatasetNameOf(o, b) : o \in ObjFiles, b \in BrdfFiles}

\* the threads that share one MERLBRDFLoader
Threads == {"t1", "t2"}

\* a thread that is not inside load_brdf and has not called it yet
NotInLoad == [pc |-> "idle"]

\* the server threads that handle POST /api/render requests
Handlers == {"h1", "h2"}

\* self.current_render_task = None
NoTask == 0

\* the params of a render request: obj_name and brdf_name
RenderParams ==
    {[obj_name |-> "a", brdf_name |-> "c"], [obj_name |-> "a", brdf_name |-> "b"]}

\* the patterns generate_light_positions has a branch for
KnownPatterns == {"hemisphere", "circle", "grid"}

----------------------------------------------------------------------------
(* Light sampling: generate_light_positions *)

\* exact value num/den, in units of the light distance
Rat(num, den) == <<"rat", num, den>>

\* int(np.ceil(np.sqrt(n))) for n >= 0
CeilSqrt(n) ==
    CHOOSE g \in 0..n : g * g >= n /\ (g = 0 \/ (g - 1) * (g - 1) < n)

\* np.sqrt of a negative number is nan and int(nan) raises ValueError
LightPositionsRaises(num_lights, pattern) ==
    pattern = "grid" /\ num_lights < 0

\* a hemisphere whose first light stands at the pole
HemispherePositionNoOffset(i, n) ==
    <<<<"hemi_x", i, n>>, <<"hemi_y", i, n>>, Rat(2 * n - 2 * i, 2 * n)>>

\* a grid filled column by column
GridPositionTransposed(i, n) ==
    LET grid_size == CeilSqrt(n)
        row == i % grid_size
        col == i \div grid_size
    IN  <<Rat(2 * col - grid_size + 1, 2 * grid_size),
          Rat(2 * row - grid_size + 1, 2 * grid_size),
          Rat(1, 1)>>

\* the i-th (0-based) position of each pattern, as <<x, y, z>>, every float
\* operation taken as exact: x and y of the hemisphere and of the circle are
\* distance * sin(theta) * cos(phi) and the like, kept as terms; the z of the
\* hemisphere is the argument of arccos
HemispherePosition(i, n) ==
    <<<<"hemi_x", i, n>>, <<"hemi_y", i, n>>, Rat(2 * n - 2 * i - 1, 2 * n)>>

CirclePosition(i, n) ==
    <<<<"circ_x", i, n>>, <<"circ_y", i, n>>, Rat(7, 10)>>

GridPosition(i, n) ==
    LET grid_size == CeilSqrt(n)
        row == i \div grid_size
        col == i % grid_size
    IN  <<Rat(2 * col - grid_size + 1, 2 * grid_size),
          Rat(2 * row - grid_size + 1, 2 * grid_size),
          Rat(1, 1)>>

\* a sampler that fills the whole grid_size x grid_size grid
generate_light_positions_full_grid(num_lights, pattern) ==
    IF pattern = "hemisphere"
    THEN [j \in 1..num_lights |-> HemispherePosition(j - 1, num_lights)]
    ELSE IF pattern = "circle"
    THEN [j \in 1..num_lights |-> CirclePosition(j - 1, num_lights)]
    ELSE IF pattern = "grid"
    THEN [j \in 1..(CeilSqrt(num_lights) * CeilSqrt(num_lights)) |->
            GridPosition(j - 1, num_lights)]
    ELSE <<>>

\* positions = []; one append per loop iteration of the matching branch; a
\* pattern that matches no branch leaves the list empty
generate_light_positions(num_lights, pattern) ==
    IF pattern = "hemisphere"
    THEN [j \in 1..num_lights |-> HemispherePosition(j - 1, num_lights)]
    ELSE IF pattern = "circle"
    THEN [j \in 1..num_lights |-> CirclePosition(j - 1, num_lights)]
    ELSE IF pattern = "grid"
    THEN [j \in 1..num_lights |-> GridPosition(j - 1, num_lights)]
    ELSE <<>>

\* np.cos(np.arccos(c)) in double precision: c plus a rounding error err of at
\* most 2^-53 in either direction (err = -1, 0, 1: below c, c itself, above c).
\* Neither function is exact and the result depends on the math library; for
\* c = 0.5 the C library returns 0.4999999999999999.
CosArccos(c, err) == <<"float", c[2], c[3], err>>

\* the rounding errors of one np.cos(np.arccos(c))
UlpErrors == {-1, 0, 1}

\* generate_light_positions(num_lights, distance, pattern) with the rounding
\* of the hemisphere's z made explicit: err[j] is the error of the j-th light
generate_light_positions_rounded(num_lights, pattern, err) ==
    LET positions == generate_light_positions(num_lights, pattern)
    IN  IF pattern = "hemisphere"
        THEN [j \in 1..Len(positions) |->
                <<positions[j][1], positions[j][2],
                  CosArccos(positions[j][3], err[j])>>]
        ELSE positions

----------------------------------------------------------------------------
(* The configuration artifact *)

\* a Python tuple value (a list is a plain sequence)
PyTuple(items) == [python_tuple |-> items]

\* enumerate(seq, start): the sequence of <<index, element>> pairs
Enumerate(seq, start) == [j \in 1..Len(seq) |-> <<start + j - 1, seq[j]>>]

\* the dict built by the loop "for i, pos in enumerate(light_positions, start)"
ConfigFromEnumeration(light_pos, name, start) ==
    LET en == Enumerate(light_pos, start)
        keys == {LightName(en[j][1]) : j \in 1..Len(en)}
        last(key) == CHOOSE j \in 1..Len(en) :
                        /\ LightName(en[j][1]) = key
                        /\ \A j2 \in 1..Len(en) :
                              LightName(en[j2][1]) = key => j2 <= j
    IN  [camera |->
            [intrinsic_matrix |-> [fx |-> 500, fy |-> 500, cx |-> 128, cy |-> 128]],
         lights |->
            [count |-> Len(light_pos),
             positions |-> [key \in keys |-> en[last(key)][2]],
             intensities |-> [key \in keys |-> 1]],
         reconstruction |->
            [input_images |->
                [j \in 1..Len(en) |-> ConfigImagePath(name, en[j][1])],
             ground_truth_normal |->
                [sep |-> "\\", parts |-> <<name, "images", NormalFile>>],
             output_normal_map |->
                [sep |-> "\\", parts |-> <<name, "output",
                    [stem |-> <<"normal_map", 0>>, ext |-> "png"]>>],
             mask_threshold |-> Rat(1, 10),
             shadow_threshold |-> Rat(5, 100),
             hog_regularization |->
                [enabled |-> FALSE,
                 lambda |-> Rat(2, 10),
                 orientations |-> 9,
                 pixels_per_cell |-> PyTuple(<<8, 8>>),
                 cells_per_block |-> PyTuple(<<2, 2>>)]]]

create_dataset_config_from0(light_pos, name) ==
    ConfigFromEnumeration(light_pos, name, 0)

create_dataset_config(light_pos, name) ==
    ConfigFromEnumeration(light_pos, name, 1)

\* dict.get(key, default)
Get(dict, key, default) == IF key \in DOMAIN dict THEN dict[key] ELSE default

None == <<"None">>

\* light['intensity'] raises KeyError when a light has no intensity
CustomConfigRaises(lights_arg) ==
    \E j \in 1..Len(lights_arg) : "intensity" \notin DOMAIN lights_arg[j]

\* the config dict literal of generate_custom_dataset
CustomConfig(name, lights_arg) ==
    [dataset_name |-> name,
     image_size |-> <<256, 256>>,
     num_lights |-> Len(lights_arg),
     lights |-> [j \in 1..Len(lights_arg) |->
                    [type |-> Get(lights_arg[j], "type", "point"),
                     position |-> Get(lights_arg[j], "position", None),
                     direction |-> Get(lights_arg[j], "direction", None),
                     intensity |-> lights_arg[j].intensity]],
     camera |-> [fov |-> 45,
                 position |-> <<0, 0, 5>>,
                 target |-> <<0, 0, 0>>]]

\* yaml.dump(config): the default Dumper writes a dict as a mapping, a list
\* as a sequence, and a tuple as a sequence node tagged !!python/tuple. Only
\* hog_regularization holds tuples; the custom config holds none.
YamlTupleNode(value) ==
    [tag |-> "tag:yaml.org,2002:python/tuple", value |-> value.python_tuple]

yaml_dump(config) ==
    IF "reconstruction" \in DOMAIN config
    THEN [config EXCEPT
            !.reconstruction.hog_regularization.pixels_per_cell = YamlTupleNode(@),
            !.reconstruction.hog_regularization.cells_per_block = YamlTupleNode(@)]
    ELSE config

\* yaml.safe_load(document) raises ConstructorError on a node whose tag the
\* SafeLoader has no constructor for, such as !!python/tuple
SafeLoadRaises(document) ==
    /\ "reconstruction" \in DOMAIN document
    /\ \E key \in {"pixels_per_cell", "cells_per_block"} :
          document.reconstruction.hog_regularization[key].tag
              = "tag:yaml.org,2002:python/tuple"

----------------------------------------------------------------------------
(* The dataset directory on disk *)

NoDir == [exists |-> FALSE, images_dir |-> FALSE, images |-> {},
          output_dir |-> FALSE, config |-> <<>>]

\* dataset_dir.mkdir; shutil.rmtree(images_dir) if it exists; images_dir.mkdir;
\* output_dir.mkdir
PrepareDirKeepImages(dir) ==
    [dir EXCEPT !.exists = TRUE, !.images_dir = TRUE, !.output_dir = TRUE]

PrepareDir(dir) ==
    [dir EXCEPT !.exists = TRUE, !.images_dir = TRUE, !.images = {},
                !.output_dir = TRUE]

\* open(config_path, 'w'); yaml.dump(config, f)
WriteConfig(dir, content, run) ==
    [dir EXCEPT !.config = <<[content |-> content, writtenBy |-> run]>>]

\* mi.util.write_bitmap(str(output_path), image): creates or replaces the file;
\* next to the scene it was rendered from, the file carries as history the run
\* that wrote it and that run's obj_path and brdf_path
WriteImage(dir, path, scene, run) ==
    [dir EXCEPT !.images =
        {f \in @ : f.file # FileOf(path)}
            \cup {[file |-> FileOf(path), scene |-> scene, writtenBy |-> run,
                   runObj |-> obj_path, runBrdf |-> brdf_path]}]

FileExists(dir, file) == \E f \in dir.images : f.file = file

----------------------------------------------------------------------------
(* Files the generator reads: meshes and tabulated BRDFs *)

\* a path that names no file
MissingFile == [exists |-> FALSE]

\* an OBJ mesh file
MeshFile == [exists |-> TRUE, kind |-> "obj"]

\* the float nan; a finite float is a Rat
NaN == <<"nan">>

\* statistics of a table whose doubles are all finite: the per-channel mean and
\* the standard deviation of the whole array, after the loader's scaling and
\* clamping
FiniteStats ==
    [mean |-> <<Rat(20, 1000), Rat(23, 1000), Rat(33, 1000)>>,
     std |-> Rat(5, 1000)]

\* a binary BRDF file: the three ints of its header (<<>> when the file is
\* shorter than the 12 header bytes), the number of 8-byte doubles that follow,
\* and, as summaries of those doubles, the mean of the non-negative red channel
\* over the mid-range slice that _load_brdf_albedo averages and the statistics
\* that _approximate_brdf_material computes
BrdfFile(dims, doubles, mid_mean) ==
    [exists |-> TRUE, kind |-> "brdf", dims |-> dims, doubles |-> doubles,
     mid_mean |-> mid_mean, stats |-> FiniteStats]

\* the same with other doubles
BrdfFileWithStats(dims, doubles, mid_mean, stats) ==
    [BrdfFile(dims, doubles, mid_mean) EXCEPT !.stats = stats]

\* dims[0] * dims[1] * dims[2]
TotalPoints(dims) == dims[1] * dims[2] * dims[3]

\* open() raises on a missing file; struct.unpack raises struct.error when
\* f.read returned fewer bytes than the format needs
BrdfReadRaises(file) ==
    \/ ~file.exists
    \/ Len(file.dims) < 3
    \/ file.doubles < TotalPoints(file.dims) * 3

\* the standard resolution of a MERL table and the doubles it needs
StandardDims == <<90, 90, 180>>
StandardDoubles == TotalPoints(StandardDims) * 3

\* the file systems the generator is run on: every mesh and table present; or
\* mesh a.o missing, table c.m cut short and table b_c.m missing
FileSystems ==
    {[path \in Paths |->
        IF path \in ObjFiles THEN MeshFile
        ELSE IF path = BrdfBC THEN BrdfFile(StandardDims, StandardDoubles, 99999)
        ELSE BrdfFile(StandardDims, StandardDoubles, 999)],
     [path \in Paths |->
        IF path = ObjA THEN MissingFile
        ELSE IF path \in ObjFiles THEN MeshFile
        ELSE IF path = BrdfC THEN BrdfFile(StandardDims, StandardDoubles - 1, 999)
        ELSE MissingFile]}

----------------------------------------------------------------------------
(* Material of the light renders: _load_brdf_albedo, _create_simple_material *)

\* kw in s
Contains(s, kw) ==
    \E i \in 1..(Len(s) - Len(kw) + 1) : SubSeq(s, i, i + Len(kw) - 1) = kw

\* str.lower() on the names used here, whose only upper-case letter is S
Lower(s) == [i \in 1..Len(s) |-> IF s[i] = "S" THEN "s" ELSE s[i]]

\* np.log10(m + 1) for the means used here, which are of the form 10^L - 1
Log10Plus1(m) == CHOOSE L \in 0..6 : 10 ^ L = m + 1

\* np.clip(x, lo, hi) on integers
Clip(x, lo, hi) == IF x < lo THEN lo ELSE IF x > hi THEN hi ELSE x

\* brdf_data[start_idx:end_idx, start_idx:end_idx, :, 0] has no element; its
\* mean() is nan and "nan > 0" is False
MidSliceEmpty(dims) ==
    LET start_idx == dims[1] \div 4
        end_idx == (dims[1] * 3) \div 4
    IN  \/ end_idx <= start_idx
        \/ dims[2] <= start_idx
        \/ dims[3] <= 0

\* _load_brdf_albedo(brdf_path): the value returned and whether the except
\* branch logged its warning
load_brdf_albedo(file) ==
    IF BrdfReadRaises(file)
    THEN [value |-> Rat(7, 10), warned |-> TRUE]
    ELSE IF MidSliceEmpty(file.dims) \/ file.mid_mean = 0
    THEN [value |-> Rat(7, 10), warned |-> FALSE]
    ELSE [value |-> Rat(Clip(2 * Log10Plus1(file.mid_mean), 5, 9), 10),
          warned |-> FALSE]

pure_metal_keywords ==
    {<<"s", "t", "e", "e", "l">>,
     <<"b", "r", "a", "s", "s">>,
     <<"c", "h", "r", "o", "m", "e">>,
     <<"a", "l", "u", "m", "i", "n">>,
     <<"s", "i", "l", "v", "e", "r">>,
     <<"c", "o", "p", "p", "e", "r">>,
     <<"n", "i", "c", "k", "e", "l">>}

\* the keywords of the metal test of brdf_renderer.py
metallic_keywords ==
    {<<"m", "e", "t", "a", "l">>,
     <<"s", "t", "e", "e", "l">>,
     <<"b", "r", "a", "s", "s">>,
     <<"c", "h", "r", "o", "m", "e">>,
     <<"a", "l", "u", "m", "i", "n">>,
     <<"g", "o", "l", "d">>,
     <<"s", "i", "l", "v", "e", "r">>,
     <<"c", "o", "p", "p", "e", "r">>,
     <<"n", "i", "c", "k", "e", "l">>}

RoughConductor(alpha, material) ==
    [type |-> "roughconductor", alpha |-> alpha, material |-> material]

RoughConductorEtaK(alpha, eta, kk) ==
    [type |-> "roughconductor", alpha |-> alpha,
     eta |-> [type |-> "rgb", value |-> eta],
     k |-> [type |-> "rgb", value |-> kk]]

Diffuse(value) ==
    [type |-> "diffuse", reflectance |-> [type |-> "rgb", value |-> value]]

\* the if/elif chain over the hue keywords, in source order; base colours in
\* hundredths
HueTable ==
    <<[keywords |-> {<<"r", "e", "d">>, <<"b", "r", "i", "c", "k">>}, base_color |-> <<100, 20, 20>>],
      [keywords |-> {<<"b", "l", "u", "e">>}, base_color |-> <<20, 40, 100>>],
      [keywords |-> {<<"g", "r", "e", "e", "n">>}, base_color |-> <<20, 100, 30>>],
      [keywords |-> {<<"y", "e", "l", "l", "o", "w">>}, base_color |-> <<100, 100, 20>>],
      [keywords |-> {<<"o", "r", "a", "n", "g", "e">>}, base_color |-> <<100, 50, 10>>],
      [keywords |-> {<<"p", "u", "r", "p", "l", "e">>, <<"v", "i", "o", "l", "e", "t">>}, base_color |-> <<80, 20, 100>>],
      [keywords |-> {<<"p", "i", "n", "k">>}, base_color |-> <<100, 40, 60>>],
      [keywords |-> {<<"b", "r", "o", "w", "n">>, <<"w", "o", "o", "d">>}, base_color |-> <<80, 50, 30>>],
      [keywords |-> {<<"a", "v", "e", "n", "t", "u", "r", "i", "n", "e">>, <<"a", "v", "e", "n", "t", "u", "r", "n", "i", "n", "e">>}, base_color |-> <<30, 80, 50>>],
      [keywords |-> {<<"p", "e", "a", "r", "l">>}, base_color |-> <<100, 100, 90>>],
      [keywords |-> {<<"g", "o", "l", "d">>}, base_color |-> <<100, 80, 20>>],
      [keywords |-> {<<"b", "e", "i", "g", "e">>}, base_color |-> <<90, 85, 70>>],
      [keywords |-> {<<"w", "h", "i", "t", "e">>}, base_color |-> <<100, 100, 100>>],
      [keywords |-> {<<"b", "l", "a", "c", "k">>}, base_color |-> <<30, 30, 30>>]>>

\* the base_color the chain selects: the first entry with a keyword in the
\* name, else the neutral (0.8, 0.8, 0.8)
BaseColor(brdf_lower) ==
    LET hits == {n \in 1..Len(HueTable) :
                    \E kw \in HueTable[n].keywords : Contains(brdf_lower, kw)}
    IN  IF hits = {} THEN <<80, 80, 80>>
        ELSE HueTable[CHOOSE n \in hits : \A n2 \in hits : n <= n2].base_color

\* (base_color * albedo).tolist()
ScaleColor(base_color, albedo) ==
    [c \in 1..3 |-> Rat(base_color[c] * albedo[2], 100 * albedo[3])]

\* the branch of _create_simple_material for pure metals
MetalMaterial(brdf_lower) ==
    IF Contains(brdf_lower, <<"g", "o", "l", "d">>) THEN RoughConductor(Rat(10, 100), "Au")
    ELSE IF Contains(brdf_lower, <<"s", "i", "l", "v", "e", "r">>) THEN RoughConductor(Rat(10, 100), "Ag")
    ELSE IF Contains(brdf_lower, <<"c", "o", "p", "p", "e", "r">>) THEN RoughConductor(Rat(10, 100), "Cu")
    ELSE IF Contains(brdf_lower, <<"a", "l", "u", "m", "i", "n">>) THEN RoughConductor(Rat(10, 100), "Al")
    ELSE IF Contains(brdf_lower, <<"c", "h", "r", "o", "m", "e">>) THEN RoughConductor(Rat(5, 100), "Cr")
    ELSE IF Contains(brdf_lower, <<"b", "r", "a", "s", "s">>)
    THEN RoughConductorEtaK(Rat(15, 100),
                            <<Rat(618, 1000), Rat(425, 1000), Rat(206, 1000)>>,
                            <<Rat(3580, 1000), Rat(2376, 1000), Rat(1560, 1000)>>)
    ELSE IF Contains(brdf_lower, <<"n", "i", "c", "k", "e", "l">>) THEN RoughConductor(Rat(10, 100), "Ni")
    ELSE RoughConductor(Rat(10, 100), "Al")

\* the albedo _create_simple_material uses: 0.7 unless brdf_path names an
\* existing file, which _load_brdf_albedo then reads
SimpleAlbedo(file) ==
    IF file.exists THEN load_brdf_albedo(file)
    ELSE [value |-> Rat(7, 10), warned |-> FALSE]

\* _create_simple_material(brdf_name, brdf_path), given the file brdf_path names
create_simple_material(brdf_name, file) ==
    LET brdf_lower == Lower(brdf_name)
        albedo == SimpleAlbedo(file).value
        is_pure_metal == \E kw \in pure_metal_keywords : Contains(brdf_lower, kw)
        is_paint == Contains(brdf_lower, <<"p", "a", "i", "n", "t">>) \/ Contains(brdf_lower, <<"c", "o", "a", "t">>)
    IN  IF is_pure_metal /\ ~is_paint
        THEN MetalMaterial(brdf_lower)
        ELSE Diffuse(ScaleColor(BaseColor(brdf_lower), albedo))

----------------------------------------------------------------------------
(* Scene descriptions handed to the renderer *)

DefaultLightIntensity == 50

\* scene_dict['object']: the mesh file if Path(obj_path).exists(), else the
\* builtin sphere of radius 1 at the origin
SceneObject(obj, bsdf) ==
    IF files[obj].exists
    THEN [type |-> "obj", filename |-> obj, bsdf |-> bsdf]
    ELSE [type |-> "sphere", center |-> <<0, 0, 0>>, radius |-> Rat(1, 1),
          bsdf |-> bsdf]

\* the material a run's light renders use
RunMaterial(brdf) == create_simple_material(PathStem(brdf), files[brdf])

\* the bsdf literal of render_normal_map
NeutralDiffuse == [type |-> "diffuse", reflectance |-> Rat(8, 10)]

\* scene_dict of render_light_images for one light position
LightScene(light_pos, obj, material) ==
    [type |-> "scene",
     integrator |-> [type |-> "direct"],
     light |-> [type |-> "point",
                position |-> light_pos,
                intensity |-> Rat(DefaultLightIntensity, 1)],
     object |-> SceneObject(obj, material)]

\* a normal-map scene whose surface takes its reflectance from the BRDF file
NormalSceneWithBrdfAlbedo(obj) ==
    [type |-> "scene",
     integrator |-> [type |-> "aov", aovs |-> "sh_normal:sh_normal"],
     object |-> SceneObject(obj,
                    [type |-> "diffuse",
                     reflectance |-> SimpleAlbedo(files[brdf_path]).value])]

\* scene_dict of render_normal_map
NormalScene(obj) ==
    [type |-> "scene",
     integrator |-> [type |-> "aov", aovs |-> "sh_normal:sh_normal"],
     object |-> SceneObject(obj, NeutralDiffuse)]

\* a light dict of the custom generator is usable when its type is point and
\* it has a position, or directional and it has a direction
CustomLightValid(light_config) ==
    LET light_type == Get(light_config, "type", "point")
    IN  \/ light_type = "point" /\ "position" \in DOMAIN light_config
        \/ light_type = "directional" /\ "direction" \in DOMAIN light_config

\* d * c for an exact value d
Scale(d, c) == Rat(d[2] * c, d[3])

\* scene_dict of _render_single_light_image for a usable light dict
CustomLightScene(light_config, obj, material) ==
    LET light_type == Get(light_config, "type", "point")
        light_intensity == Get(light_config, "intensity", Rat(100, 1))
    IN  [type |-> "scene",
         integrator |-> [type |-> "path", max_depth |-> 8],
         light |->
            IF light_type = "point"
            THEN [type |-> "point",
                  position |-> light_config.position,
                  intensity |-> Scale(light_intensity, 2)]
            ELSE [type |-> "point",
                  position |-> [c \in 1..3 |-> Scale(light_config.direction[c], 100)],
                  intensity |-> Scale(light_intensity, 10)],
         object |-> SceneObject(obj, material)]

\* lights arguments of the custom generator
PointLight ==
    [type |-> "point", position |-> <<Rat(0, 1), Rat(0, 1), Rat(3, 1)>>,
     intensity |-> Rat(50, 1)]
DirectionalLight ==
    [type |-> "directional", direction |-> <<Rat(1, 1), Rat(0, 1), Rat(1, 1)>>,
     intensity |-> Rat(5, 1)]
SpotLight ==
    [type |-> "spot", position |-> <<Rat(0, 1), Rat(1, 1), Rat(3, 1)>>,
     intensity |-> Rat(50, 1)]
PointLightNoPosition == [type |-> "point", intensity |-> Rat(50, 1)]
LightNoIntensity == [position |-> <<Rat(0, 1), Rat(0, 1), Rat(3, 1)>>]

CustomLightLists ==
    {<<>>, <<PointLight>>, <<PointLight, DirectionalLight>>,
     <<PointLight, PointLightNoPosition>>, <<SpotLight>>, <<LightNoIntensity>>}

----------------------------------------------------------------------------
(* One generation run: generate_single_dataset / generate_custom_dataset *)

\* the warning _create_simple_material logs, through _load_brdf_albedo, when
\* the BRDF file exists but cannot be read as a table
MaterialWarnings(brdf) ==
    IF SimpleAlbedo(files[brdf]).warned
    THEN <<[level |-> "WARNING", event |-> "brdf_albedo_unreadable"]>>
    ELSE <<>>

\* what the external renderer can do with a scene: succeed or raise
RenderOutcomes == IF MITSUBA_AVAILABLE THEN BOOLEAN ELSE {FALSE}

RunIdle == pc \in {"idle", "returned", "raised"}

LogEntry(step, index, ok) == [step |-> step, index |-> index, ok |-> ok]

\* generate_single_dataset up to its first render call: prepare the directory,
\* sample the lights, build and write config.yaml, enter render_light_images
SingleBegin(name, obj, brdf, num_lights, pattern) ==
    LET run == runCount + 1
        prepared == PrepareDir(disk[name])
        positions == generate_light_positions(num_lights, pattern)
        config == create_dataset_config(positions, name)
    IN  /\ runCount' = run
        /\ lastRun' = [lastRun EXCEPT ![name] = run]
        /\ kind' = "single"
        /\ dataset_name' = name
        /\ obj_path' = obj
        /\ brdf_path' = brdf
        /\ args' = [num_lights |-> num_lights, light_pattern |-> pattern]
        /\ lights' = <<>>
        /\ k' = 1
        /\ renderLog' = <<>>
        /\ warnings' = IF ~LightPositionsRaises(num_lights, pattern)
                            /\ MITSUBA_AVAILABLE
                       THEN MaterialWarnings(brdf)
                       ELSE <<>>
        /\ IF LightPositionsRaises(num_lights, pattern)
           THEN /\ disk' = [disk EXCEPT ![name] = prepared]
                /\ light_positions' = <<>>
                /\ pc' = "raised"
                /\ result' = FALSE
           ELSE /\ disk' = [disk EXCEPT ![name] = WriteConfig(prepared, yaml_dump(config), run)]
                /\ light_positions' = positions
                /\ IF ~MITSUBA_AVAILABLE
                   THEN pc' = "returned" /\ result' = FALSE
                   ELSE /\ result' = FALSE
                        /\ pc' = IF Len(positions) = 0 THEN "render_normal"
                                 ELSE "render_lights"

\* one iteration of the loop of render_light_images: render light k and write
\* light_k.png, or return False at the first failure
RenderLightStepContinue(ok) ==
    /\ pc = "render_lights" /\ kind = "single"
    /\ renderLog' = Append(renderLog, LogEntry("light", k, ok))
    /\ disk' = IF ok
               THEN [disk EXCEPT ![dataset_name] =
                        WriteImage(@, RenderImagePath(dataset_name, k),
                                   LightScene(light_positions[k], obj_path,
                                              RunMaterial(brdf_path)),
                                   runCount)]
               ELSE disk
    /\ IF k = Len(light_positions)
       THEN pc' = "render_normal" /\ k' = k
       ELSE pc' = pc /\ k' = k + 1
    /\ UNCHANGED <<MITSUBA_AVAILABLE, files, runCount, kind, dataset_name, obj_path,
                   brdf_path, args, light_positions, lights, result, warnings,
                   lastRun>>

RenderLightStep(ok) ==
    /\ pc = "render_lights" /\ kind = "single"
    /\ renderLog' = Append(renderLog, LogEntry("light", k, ok))
    /\ IF ok
       THEN /\ disk' = [disk EXCEPT ![dataset_name] =
                            WriteImage(@, RenderImagePath(dataset_name, k),
                                       LightScene(light_positions[k], obj_path,
                                              RunMaterial(brdf_path)),
                                   runCount)]
            /\ result' = result
            /\ IF k = Len(light_positions)
               THEN pc' = "render_normal" /\ k' = k
               ELSE pc' = pc /\ k' = k + 1
       ELSE /\ disk' = disk
            /\ pc' = "returned" /\ result' = FALSE /\ k' = k
    /\ UNCHANGED <<MITSUBA_AVAILABLE, files, runCount, kind, dataset_name, obj_path,
                   brdf_path, args, light_positions, lights, warnings, lastRun>>

\* generate_custom_dataset up to its first render call
CustomBegin(name, obj, brdf, lights_arg) ==
    LET run == runCount + 1
        prepared == PrepareDir(disk[name])
    IN  /\ runCount' = run
        /\ lastRun' = [lastRun EXCEPT ![name] = run]
        /\ kind' = "custom"
        /\ dataset_name' = name
        /\ obj_path' = obj
        /\ brdf_path' = brdf
        /\ args' = args
        /\ lights' = lights_arg
        /\ light_positions' = <<>>
        /\ k' = 1
        /\ renderLog' = <<>>
        /\ warnings' = <<>>
        /\ result' = FALSE
        /\ IF CustomConfigRaises(lights_arg)
           THEN /\ disk' = [disk EXCEPT ![name] = prepared]
                /\ pc' = "raised"
           ELSE /\ disk' = [disk EXCEPT ![name] =
                        WriteConfig(prepared, yaml_dump(CustomConfig(name, lights_arg)), run)]
                /\ pc' = IF Len(lights_arg) = 0 THEN "render_normal"
                         ELSE "render_lights"

\* one iteration of the light loop of generate_custom_dataset, with its call
\* of _render_single_light_image
RenderCustomLightStep(ok) ==
    /\ pc = "render_lights" /\ kind = "custom"
    /\ warnings' = warnings \o MaterialWarnings(brdf_path)
    /\ LET done == ok /\ CustomLightValid(lights[k])
       IN  /\ renderLog' = Append(renderLog, LogEntry("light", k, done))
           /\ IF done
              THEN /\ disk' = [disk EXCEPT ![dataset_name] =
                            WriteImage(@, RenderImagePath(dataset_name, k),
                                       CustomLightScene(lights[k], obj_path,
                                                        RunMaterial(brdf_path)),
                                       runCount)]
                   /\ result' = result
                   /\ IF k = Len(lights)
                      THEN pc' = "render_normal" /\ k' = k
                      ELSE pc' = pc /\ k' = k + 1
              ELSE /\ disk' = disk
                   /\ pc' = "returned" /\ result' = FALSE /\ k' = k
    /\ UNCHANGED <<MITSUBA_AVAILABLE, files, runCount, kind, dataset_name, obj_path,
                   brdf_path, args, light_positions, lights, lastRun>>

\* render_normal_map and the return of the generator that called it
RenderNormalStep(ok) ==
    /\ pc = "render_normal"
    /\ IF ~MITSUBA_AVAILABLE
       THEN /\ renderLog' = renderLog
            /\ disk' = disk
            /\ result' = FALSE
       ELSE /\ renderLog' = Append(renderLog, LogEntry("normal", 0, ok))
            /\ disk' = IF ok
                       THEN [disk EXCEPT ![dataset_name] =
                                WriteImage(@,
                                    [sep |-> "/",
                                     parts |-> <<dataset_name, "images", NormalFile>>],
                                    NormalScene(obj_path), runCount)]
                       ELSE disk
            /\ result' = ok
    /\ pc' = "returned"
    /\ UNCHANGED <<MITSUBA_AVAILABLE, files, runCount, kind, dataset_name, obj_path,
                   brdf_path, args, light_positions, lights, k, warnings,
                   lastRun>>

----------------------------------------------------------------------------
(* generate_batch_datasets *)

\* lists the batch is called with
ObjLists == {<<ObjA>>, <<ObjA, ObjDA>>, <<ObjA, ObjAB>>}
BrdfLists == {<<BrdfC>>, <<BrdfC, BrdfBC>>}

\* max_datasets: None, or an int
NoLimit == [given |-> FALSE, value |-> 0]
Limit(v) == [given |-> TRUE, value |-> v]

\* the (obj_file, brdf_file) pairs in the order the nested loops visit them
BatchPairs(obj_files, brdf_files) ==
    [p \in 1..(Len(obj_files) * Len(brdf_files)) |->
        [obj |-> obj_files[((p - 1) \div Len(brdf_files)) + 1],
         brdf |-> brdf_files[((p - 1) % Len(brdf_files)) + 1]]]

Pairs == BatchPairs(batch.obj_files, batch.brdf_files)

\* "if max_datasets and count >= max_datasets": None and 0 are both falsy
LimitReached ==
    batch.max_datasets.given /\ batch.max_datasets.value # 0
        /\ count >= batch.max_datasets.value

\* results[dataset_name] = success
SetItem(dict, key, value) ==
    [x \in DOMAIN dict \cup {key} |-> IF x = key THEN value ELSE dict[x]]

BatchBegin(obj_files, brdf_files, num_lights, pattern, max_datasets) ==
    /\ bpc = "idle" /\ RunIdle
    /\ batch' = [obj_files |-> obj_files, brdf_files |-> brdf_files,
                 num_lights |-> num_lights, light_pattern |-> pattern,
                 max_datasets |-> max_datasets]
    /\ results' = <<>>
    /\ count' = 0
    /\ bidx' = 1
    /\ attempts' = <<>>
    /\ outcomes' = <<>>
    /\ bpc' = "loop"
    /\ UNCHANGED <<orchVars, mesh, web, brdfVars>>

\* the head of the inner loop: leave when the pairs are exhausted or the limit
\* is reached, else name the dataset and call generate_single_dataset
BatchIterate ==
    /\ bpc = "loop"
    /\ IF bidx > Len(Pairs) \/ LimitReached
       THEN /\ bpc' = "returned"
            /\ UNCHANGED <<orchVars, attempts>>
       ELSE LET name == DatasetNameOf(Pairs[bidx].obj, Pairs[bidx].brdf)
            IN  /\ SingleBegin(name, Pairs[bidx].obj, Pairs[bidx].brdf,
                               batch.num_lights, batch.light_pattern)
                /\ attempts' = Append(attempts,
                        [obj |-> Pairs[bidx].obj, brdf |-> Pairs[bidx].brdf,
                         name |-> name, run |-> runCount + 1])
                /\ bpc' = "in_dataset"
                /\ UNCHANGED <<MITSUBA_AVAILABLE, files>>
    /\ UNCHANGED <<batch, bidx, results, count, outcomes, mesh, web, brdfVars>>

\* generate_single_dataset has returned: record its result and go on; an
\* exception it raised leaves generate_batch_datasets
BatchRecordStopOnFailure ==
    /\ bpc = "in_dataset" /\ pc \in {"returned", "raised"}
    /\ IF pc = "raised"
       THEN bpc' = "raised" /\ UNCHANGED <<results, count, bidx, outcomes>>
       ELSE /\ results' = SetItem(results, dataset_name, result)
            /\ outcomes' = Append(outcomes, result)
            /\ count' = count + 1
            /\ bidx' = bidx + 1
            /\ bpc' = IF result THEN "loop" ELSE "returned"
    /\ UNCHANGED <<orchVars, batch, attempts, mesh, web, brdfVars>>

BatchRecord ==
    /\ bpc = "in_dataset" /\ pc \in {"returned", "raised"}
    /\ IF pc = "raised"
       THEN bpc' = "raised" /\ UNCHANGED <<results, count, bidx, outcomes>>
       ELSE /\ results' = SetItem(results, dataset_name, result)
            /\ outcomes' = Append(outcomes, result)
            /\ count' = count + 1
            /\ bidx' = bidx + 1
            /\ bpc' = "loop"
    /\ UNCHANGED <<orchVars, batch, attempts, mesh, web, brdfVars>>

----------------------------------------------------------------------------
(* Specifications of the dataset generator *)

NoMesh == [pc |-> "idle"]

Init ==
    /\ MITSUBA_AVAILABLE \in BOOLEAN
    /\ files \in FileSystems
    /\ warnings = <<>>
    /\ disk = [name \in DatasetNames |-> NoDir]
    /\ runCount = 0
    /\ pc = "idle"
    /\ kind = "single"
    /\ dataset_name = <<>>
    /\ obj_path = <<>>
    /\ brdf_path = <<>>
    /\ args = [num_lights |-> 0, light_pattern |-> "hemisphere"]
    /\ light_positions = <<>>
    /\ lights = <<>>
    /\ k = 1
    /\ result = FALSE
    /\ renderLog = <<>>
    /\ lastRun = [name \in DatasetNames |-> 0]
    /\ bpc = "idle"
    /\ batch = [obj_files |-> <<>>, brdf_files |-> <<>>, num_lights |-> 0,
                light_pattern |-> "hemisphere", max_datasets |-> NoLimit]
    /\ bidx = 1
    /\ results = <<>>
    /\ count = 0
    /\ attempts = <<>>
    /\ outcomes = <<>>
    /\ mesh = NoMesh
    /\ brdf_cache = <<>>
    /\ opened = [path \in LibBrdfPaths |-> 0]
    /\ loaded = <<>>
    /\ call = [fn |-> "none"]
    /\ threads = [t \in Threads |-> NotInLoad]
    /\ web = [current_render_task |-> NoTask, tasks |-> <<>>,
              handlers |-> [h \in Handlers |-> [pc |-> "idle"]]]

\* the (obj_path, brdf_path) arguments of the direct single runs: one mesh with
\* either table, and a second mesh
SingleFiles ==
    {[obj |-> ObjA, brdf |-> BrdfC], [obj |-> ObjA, brdf |-> BrdfBC],
     [obj |-> ObjAB, brdf |-> BrdfC]}

\* the (num_lights, light_pattern) arguments of the direct single runs: every
\* count from 0 for the three patterns, a negative count for the one pattern
\* that computes with it before looping, and a pattern the sampler has no
\* branch for
SingleLights ==
    {[num_lights |-> n, pattern |-> pattern] :
        n \in 0..MaxLights, pattern \in KnownPatterns}
    \cup {[num_lights |-> -1, pattern |-> "grid"],
          [num_lights |-> MaxLights, pattern |-> "spiral"]}

\* a call of generate_single_dataset, by main() in single mode (which names
\* the dataset after its mesh and material) or by a script (which may pass any
\* light_pattern string)
GenerateSingleDataset ==
    /\ bpc = "idle" /\ RunIdle /\ runCount < MaxRuns
    /\ \E files_arg \in SingleFiles, lights_arg \in SingleLights :
          SingleBegin(DatasetNameOf(files_arg.obj, files_arg.brdf),
                      files_arg.obj, files_arg.brdf,
                      lights_arg.num_lights, lights_arg.pattern)
    /\ UNCHANGED <<MITSUBA_AVAILABLE, files, batchVars, mesh, web, brdfVars>>

GenerateCustomDataset ==
    /\ bpc = "idle" /\ RunIdle /\ runCount < MaxRuns
    /\ \E lights_arg \in CustomLightLists :
          CustomBegin(DatasetNameOf(ObjA, BrdfC), ObjA, BrdfC, lights_arg)
    /\ UNCHANGED <<MITSUBA_AVAILABLE, files, batchVars, mesh, web, brdfVars>>

RenderLight ==
    /\ \E ok \in RenderOutcomes : RenderLightStep(ok)
    /\ UNCHANGED <<batchVars, mesh, web, brdfVars>>

RenderCustomLight ==
    /\ \E ok \in RenderOutcomes : RenderCustomLightStep(ok)
    /\ UNCHANGED <<batchVars, mesh, web, brdfVars>>

RenderNormal ==
    /\ \E ok \in RenderOutcomes : RenderNormalStep(ok)
    /\ UNCHANGED <<batchVars, mesh, web, brdfVars>>

Next ==
    \/ GenerateSingleDataset
    \/ GenerateCustomDataset
    \/ RenderLight
    \/ RenderCustomLight
    \/ RenderNormal

Spec == Init /\ [][Next]_vars

\* The generator takes no cancellation argument and polls no flag or event: the
\* one external signal that stops a run is SIGINT, which raises
\* KeyboardInterrupt in the main thread. The render functions catch Exception
\* only, so the interrupt leaves generate_single_dataset as an exception. Here
\* it arrives between two render steps.
Interrupt ==
    /\ pc \in {"render_lights", "render_normal"}
    /\ renderLog' = Append(renderLog, LogEntry("interrupt", k, FALSE))
    /\ pc' = "raised"
    /\ result' = FALSE
    /\ UNCHANGED <<MITSUBA_AVAILABLE, files, disk, runCount, kind, dataset_name,
                   obj_path, brdf_path, args, light_positions, lights, k,
                   warnings, lastRun>>
    /\ UNCHANGED <<batchVars, mesh, web, brdfVars>>

NextCancel ==
    \/ GenerateSingleDataset
    \/ RenderLight
    \/ RenderNormal
    \/ Interrupt

SpecCancel == Init /\ [][NextCancel]_vars

----------------------------------------------------------------------------
(* The light sampler on its own *)

\* a call of generate_light_positions(num_lights, distance, pattern)
GenerateLightPositions ==
    /\ \E num_lights \in 0..MaxSamples, pattern \in KnownPatterns :
          \E err \in [1..num_lights -> UlpErrors] :
              /\ pattern # "hemisphere" => \A j \in 1..num_lights : err[j] = 0
              /\ call' = [fn |-> "generate_light_positions",
                          num_lights |-> num_lights, pattern |-> pattern,
                          ret |-> <<generate_light_positions_rounded(
                                        num_lights, pattern, err)>>,
                          raised |-> "none"]
    /\ UNCHANGED <<orchVars, batchVars, mesh, web, brdf_cache, opened, loaded, threads>>

NextLights ==
    GenerateLightPositions

SpecLights == Init /\ [][NextLights]_vars

GenerateBatchDatasets ==
    \E obj_files \in ObjLists, brdf_files \in BrdfLists,
       num_lights \in {-1, MaxLights}, pattern \in {"hemisphere", "grid"},
       max_datasets \in {NoLimit} \cup {Limit(v) : v \in 0..MaxBatchLimit} :
          BatchBegin(obj_files, brdf_files, num_lights, pattern, max_datasets)

NextBatch ==
    \/ GenerateBatchDatasets
    \/ BatchIterate
    \/ BatchRecord
    \/ RenderLight
    \/ RenderNormal

SpecBatch == Init /\ [][NextBatch]_vars

----------------------------------------------------------------------------
(* Mesh generators: scene_generator.py *)

\* radii, sizes, widths and heights the generators are called with
Sizes == {0, 1, 2}

\* subdivision counts the generators are called with
Subdivisions == 0..MaxSub

RECURSIVE Flatten(_)
\* the list built by appending, in order, the elements of each list of seqs
Flatten(seqs) ==
    IF seqs = <<>> THEN <<>>
    ELSE Flatten(SubSeq(seqs, 1, Len(seqs) - 1)) \o seqs[Len(seqs)]

\* a face tuple as the generators append it: OBJ indices start at 1
Face(a, b, c) == <<a + 1, b + 1, c + 1>>

\* sphere: vertex (i, j) is radius * (sin t cos p, cos t, sin t sin p) with
\* t = i * pi / subdivisions and p = j * 2 pi / (2 * subdivisions)
SphereVertices(radius, subdivisions) ==
    [n \in 1..((subdivisions + 1) * (subdivisions * 2)) |->
        [radius |-> radius,
         theta |-> <<(n - 1) \div (subdivisions * 2), subdivisions>>,
         phi |-> <<(n - 1) % (subdivisions * 2), subdivisions * 2>>]]

\* the faces appended for the quad (i, j) of the sphere
SphereQuadFacesNoWrap(subdivisions, i, j) ==
    LET v1 == i * (subdivisions * 2) + j
        v2 == i * (subdivisions * 2) + (j + 1)
        v3 == (i + 1) * (subdivisions * 2) + (j + 1)
        v4 == (i + 1) * (subdivisions * 2) + j
    IN  IF i = 0 THEN <<Face(v1, v3, v4)>>
        ELSE IF i = subdivisions - 1 THEN <<Face(v1, v2, v4)>>
        ELSE <<Face(v1, v2, v4), Face(v2, v3, v4)>>

SphereQuadFacesNoPoles(subdivisions, i, j) ==
    LET v1 == i * (subdivisions * 2) + j
        v2 == i * (subdivisions * 2) + ((j + 1) % (subdivisions * 2))
        v3 == (i + 1) * (subdivisions * 2) + ((j + 1) % (subdivisions * 2))
        v4 == (i + 1) * (subdivisions * 2) + j
    IN  <<Face(v1, v2, v4), Face(v2, v3, v4)>>

\* a sphere whose interior quads are split along the other diagonal
SphereQuadFacesOtherDiagonal(subdivisions, i, j) ==
    LET v1 == i * (subdivisions * 2) + j
        v2 == i * (subdivisions * 2) + ((j + 1) % (subdivisions * 2))
        v3 == (i + 1) * (subdivisions * 2) + ((j + 1) % (subdivisions * 2))
        v4 == (i + 1) * (subdivisions * 2) + j
    IN  IF i = 0 THEN <<Face(v1, v3, v4)>>
        ELSE IF i = subdivisions - 1 THEN <<Face(v1, v2, v4)>>
        ELSE <<Face(v1, v2, v3), Face(v1, v3, v4)>>

SphereQuadFaces(subdivisions, i, j) ==
    LET v1 == i * (subdivisions * 2) + j
        v2 == i * (subdivisions * 2) + ((j + 1) % (subdivisions * 2))
        v3 == (i + 1) * (subdivisions * 2) + ((j + 1) % (subdivisions * 2))
        v4 == (i + 1) * (subdivisions * 2) + j
    IN  IF i = 0 THEN <<Face(v1, v3, v4)>>
        ELSE IF i = subdivisions - 1 THEN <<Face(v1, v2, v4)>>
        ELSE <<Face(v1, v2, v4), Face(v2, v3, v4)>>

SphereFaces(subdivisions) ==
    Flatten([q \in 1..(subdivisions * (subdivisions * 2)) |->
        SphereQuadFaces(subdivisions,
                        (q - 1) \div (subdivisions * 2),
                        (q - 1) % (subdivisions * 2))])

\* cube: the literal vertex table, half_size = size / 2
CubeVertices(size) ==
    LET m == Rat(-size, 2)
        h == Rat(size, 2)
    IN  <<<<m, m, m>>, <<h, m, m>>, <<h, h, m>>, <<m, h, m>>,
          <<m, m, h>>, <<h, m, h>>, <<h, h, h>>, <<m, h, h>>>>

\* cube: the literal 0-based face table, written to the file with + 1
CubeFaces ==
    <<Face(5, 6, 7), Face(5, 7, 4), Face(1, 3, 2), Face(1, 4, 3),
      Face(2, 6, 5), Face(2, 5, 1), Face(4, 7, 3), Face(4, 3, 0),
      Face(3, 7, 6), Face(3, 6, 2), Face(0, 1, 5), Face(0, 5, 4)>>

\* plane: vertex (i, j) is ((j / s - 0.5) * width, 0, (i / s - 0.5) * height)
PlaneVertices(width, height, subdivisions) ==
    [n \in 1..((subdivisions + 1) * (subdivisions + 1)) |->
        LET i == (n - 1) \div (subdivisions + 1)
            j == (n - 1) % (subdivisions + 1)
        IN  <<Rat(width * (2 * j - subdivisions), 2 * subdivisions),
              Rat(0, 1),
              Rat(height * (2 * i - subdivisions), 2 * subdivisions)>>]

PlaneQuadFaces(subdivisions, i, j) ==
    LET v1 == i * (subdivisions + 1) + j
        v2 == i * (subdivisions + 1) + j + 1
        v3 == (i + 1) * (subdivisions + 1) + j + 1
        v4 == (i + 1) * (subdivisions + 1) + j
    IN  <<Face(v1, v2, v4), Face(v2, v3, v4)>>

PlaneFaces(subdivisions) ==
    Flatten([q \in 1..(subdivisions * subdivisions) |->
        PlaneQuadFaces(subdivisions, (q - 1) \div subdivisions,
                       (q - 1) % subdivisions)])

\* cylinder: per level (0 bottom, 1 top) the centre, then the rim points
\* (radius cos a, y, radius sin a) with a = 2 pi i / subdivisions
CylinderVertices(radius, height, subdivisions) ==
    [n \in 1..(2 * (subdivisions + 1)) |->
        LET level == (n - 1) \div (subdivisions + 1)
            pos == (n - 1) % (subdivisions + 1)
            y == IF level = 0 THEN Rat(-height, 2) ELSE Rat(height, 2)
        IN  IF pos = 0
            THEN [centre |-> TRUE, radius |-> 0, y |-> y, angle |-> <<0, 1>>]
            ELSE [centre |-> FALSE, radius |-> radius, y |-> y,
                  angle |-> <<pos - 1, subdivisions>>]]

\* a bottom cap wound like the top cap
CylinderBottomFaceSameWinding(subdivisions, i) ==
    LET v1 == 0
        v2 == 1 + i
        v3 == 1 + ((i + 1) % subdivisions)
    IN  Face(v1, v2, v3)

CylinderBottomFace(subdivisions, i) ==
    LET v1 == 0
        v2 == 1 + i
        v3 == 1 + ((i + 1) % subdivisions)
    IN  Face(v1, v3, v2)

CylinderTopFace(subdivisions, i) ==
    LET center_top == subdivisions + 1
        v1 == center_top
        v2 == center_top + 1 + i
        v3 == center_top + 1 + ((i + 1) % subdivisions)
    IN  Face(v1, v2, v3)

CylinderSideFaces(subdivisions, i) ==
    LET center_top == subdivisions + 1
        v1 == 1 + i
        v2 == 1 + ((i + 1) % subdivisions)
        v3 == center_top + 1 + ((i + 1) % subdivisions)
        v4 == center_top + 1 + i
    IN  <<Face(v1, v2, v4), Face(v2, v3, v4)>>

CylinderFaces(subdivisions) ==
    [i \in 1..subdivisions |-> CylinderBottomFace(subdivisions, i - 1)]
    \o [i \in 1..subdivisions |-> CylinderTopFace(subdivisions, i - 1)]
    \o Flatten([i \in 1..subdivisions |-> CylinderSideFaces(subdivisions, i - 1)])

\* torus: vertex (i, j) is ((R + r cos p) cos t, r sin p, (R + r cos p) sin t)
\* with t = 2 pi i / major_subdivisions and p = 2 pi j / minor_subdivisions
TorusVertices(major_radius, minor_radius, major_subdivisions, minor_subdivisions) ==
    [n \in 1..(major_subdivisions * minor_subdivisions) |->
        [major_radius |-> major_radius, minor_radius |-> minor_radius,
         theta |-> <<(n - 1) \div minor_subdivisions, major_subdivisions>>,
         phi |-> <<(n - 1) % minor_subdivisions, minor_subdivisions>>]]

\* a torus whose second triangle of each quad is wound the other way round
TorusQuadFacesFlipped(major_subdivisions, minor_subdivisions, i, j) ==
    LET v1 == i * minor_subdivisions + j
        v2 == i * minor_subdivisions + ((j + 1) % minor_subdivisions)
        v3 == ((i + 1) % major_subdivisions) * minor_subdivisions
                + ((j + 1) % minor_subdivisions)
        v4 == ((i + 1) % major_subdivisions) * minor_subdivisions + j
    IN  <<Face(v1, v2, v4), Face(v2, v4, v3)>>

TorusQuadFaces(major_subdivisions, minor_subdivisions, i, j) ==
    LET v1 == i * minor_subdivisions + j
        v2 == i * minor_subdivisions + ((j + 1) % minor_subdivisions)
        v3 == ((i + 1) % major_subdivisions) * minor_subdivisions
                + ((j + 1) % minor_subdivisions)
        v4 == ((i + 1) % major_subdivisions) * minor_subdivisions + j
    IN  <<Face(v1, v2, v4), Face(v2, v3, v4)>>

TorusFaces(major_subdivisions, minor_subdivisions) ==
    Flatten([q \in 1..(major_subdivisions * minor_subdivisions) |->
        TorusQuadFaces(major_subdivisions, minor_subdivisions,
                       (q - 1) \div minor_subdivisions,
                       (q - 1) % minor_subdivisions)])

\* the OBJ text: a comment header, one "v" line per vertex with each
\* coordinate formatted to six decimals, a blank line, one "f" line per face
ObjFileLines(header, vertices, faces) ==
    <<<<"#", header>>, <<"">>>>
    \o [n \in 1..Len(vertices) |-> <<"v", <<"%.6f", vertices[n]>>>>]
    \o <<<<"">>>>
    \o [n \in 1..Len(faces) |-> <<"f", faces[n][1], faces[n][2], faces[n][3]>>]

\* the state a generator call leaves: its arguments, the lists it built, the
\* file it wrote (written = FALSE: the except branch was taken before open)
MeshReturn(shape, params, vertices, faces) ==
    [pc |-> "returned", shape |-> shape, params |-> params,
     vertices |-> vertices, faces |-> faces, written |-> TRUE,
     file |-> ObjFileLines(shape, vertices, faces), result |-> TRUE]

MeshFailed(shape, params) ==
    [pc |-> "returned", shape |-> shape, params |-> params,
     vertices |-> <<>>, faces |-> <<>>, written |-> FALSE,
     file |-> <<>>, result |-> FALSE]

MeshParams(size, size2, subdivisions, subdivisions2) ==
    [size |-> size, size2 |-> size2, subdivisions |-> subdivisions,
     subdivisions2 |-> subdivisions2]

\* i * math.pi / subdivisions raises ZeroDivisionError when subdivisions = 0
create_sphere_obj ==
    /\ \E radius \in Sizes, subdivisions \in Subdivisions :
          mesh' = IF subdivisions = 0
                  THEN MeshFailed("sphere", MeshParams(radius, 0, subdivisions, 0))
                  ELSE MeshReturn("sphere", MeshParams(radius, 0, subdivisions, 0),
                                  SphereVertices(radius, subdivisions),
                                  SphereFaces(subdivisions))
    /\ UNCHANGED <<orchVars, batchVars, brdfVars, web>>

create_cube_obj ==
    /\ \E size \in Sizes :
          mesh' = MeshReturn("cube", MeshParams(size, 0, 0, 0),
                             CubeVertices(size), CubeFaces)
    /\ UNCHANGED <<orchVars, batchVars, brdfVars, web>>

\* j / subdivisions raises ZeroDivisionError when subdivisions = 0
create_plane_obj ==
    /\ \E width \in Sizes, height \in Sizes, subdivisions \in Subdivisions :
          mesh' = IF subdivisions = 0
                  THEN MeshFailed("plane", MeshParams(width, height, subdivisions, 0))
                  ELSE MeshReturn("plane", MeshParams(width, height, subdivisions, 0),
                                  PlaneVertices(width, height, subdivisions),
                                  PlaneFaces(subdivisions))
    /\ UNCHANGED <<orchVars, batchVars, brdfVars, web>>

create_cylinder_obj ==
    /\ \E radius \in Sizes, height \in Sizes, subdivisions \in Subdivisions :
          mesh' = MeshReturn("cylinder", MeshParams(radius, height, subdivisions, 0),
                             CylinderVertices(radius, height, subdivisions),
                             CylinderFaces(subdivisions))
    /\ UNCHANGED <<orchVars, batchVars, brdfVars, web>>

create_torus_obj ==
    /\ \E major_radius \in Sizes, minor_radius \in Sizes,
          major_subdivisions \in Subdivisions, minor_subdivisions \in Subdivisions :
          mesh' = MeshReturn("torus",
                             MeshParams(major_radius, minor_radius,
                                        major_subdivisions, minor_subdivisions),
                             TorusVertices(major_radius, minor_radius,
                                           major_subdivisions, minor_subdivisions),
                             TorusFaces(major_subdivisions, minor_subdivisions))
    /\ UNCHANGED <<orchVars, batchVars, brdfVars, web>>

NextMesh ==
    \/ create_sphere_obj
    \/ create_cube_obj
    \/ create_plane_obj
    \/ create_cylinder_obj
    \/ create_torus_obj

SpecMesh == Init /\ [][NextMesh]_vars

\* the lines of the written file that start with the given keyword
FileLines(keyword) == SelectSeq(mesh.file, LAMBDA line : line[1] = keyword)

----------------------------------------------------------------------------
(* BRDF loader and material approximation: brdf_renderer.py *)

\* the array load_brdf builds from a file: reshaped to the header's dims,
\* scaled per channel and clamped at 0 (np.maximum leaves a nan in place). A
\* numpy array is an object: id tells
\* apart two arrays built by two reads (the n-th open of the path).
Table(file, path, n) ==
    [dims |-> file.dims, scaled |-> TRUE, nonnegative |-> file.stats.std # NaN,
     source |-> file, id |-> <<path, n>>]

\* a loader that reads the file on every call
load_brdf_uncached(path) ==
    IF BrdfReadRaises(files[path])
    THEN [ret |-> <<>>, cache |-> brdf_cache, opens |-> 1]
    ELSE LET table == Table(files[path], path, opened[path] + 1)
         IN  [ret |-> <<table>>, cache |-> SetItem(brdf_cache, path, table),
              opens |-> 1]

\* load_brdf(brdf_path) in the current state: the Optional it returns (<<>> is
\* None), the cache it leaves and the number of times it opens the file. Any
\* exception of the read is caught, logged and turned into None.
load_brdf(path) ==
    IF path \in DOMAIN brdf_cache
    THEN [ret |-> <<brdf_cache[path]>>, cache |-> brdf_cache, opens |-> 0]
    ELSE IF BrdfReadRaises(files[path])
    THEN [ret |-> <<>>, cache |-> brdf_cache, opens |-> 1]
    ELSE LET table == Table(files[path], path, opened[path] + 1)
         IN  [ret |-> <<table>>, cache |-> SetItem(brdf_cache, path, table),
              opens |-> 1]

\* _create_default_material()
create_default_material ==
    Diffuse(<<Rat(8, 10), Rat(8, 10), Rat(8, 10)>>)

\* _detect_metallic(brdf_data, material_name): the name alone decides
detect_metallic(material_name) ==
    \E keyword \in metallic_keywords : Contains(Lower(material_name), keyword)

\* _guess_metal_type(material_name)
guess_metal_type(material_name) ==
    LET name_lower == Lower(material_name)
    IN  IF Contains(name_lower, <<"g", "o", "l", "d">>) THEN "Au"
        ELSE IF Contains(name_lower, <<"s", "i", "l", "v", "e", "r">>) THEN "Ag"
        ELSE IF Contains(name_lower, <<"c", "o", "p", "p", "e", "r">>) THEN "Cu"
        ELSE IF Contains(name_lower, <<"a", "l", "u", "m", "i", "n">>) THEN "Al"
        ELSE IF Contains(name_lower, <<"c", "h", "r", "o", "m", "e">>) THEN "Cr"
        ELSE "Al"

\* np.clip(x, lo / 1000, hi / 1000) on a float: nan compares false with both
\* bounds and is returned as it is
ClipFloat(x, lo, hi) ==
    IF x = NaN THEN NaN
    ELSE IF x[2] * 1000 < lo * x[3] THEN Rat(lo, 1000)
    ELSE IF x[2] * 1000 > hi * x[3] THEN Rat(hi, 1000)
    ELSE x

\* x * c on a float
TimesFloat(x, c) == IF x = NaN THEN NaN ELSE Rat(x[2] * c, x[3])

\* _estimate_roughness(brdf_data)
estimate_roughness(table) ==
    ClipFloat(TimesFloat(table.source.stats.std, 10), 10, 1000)

\* np.max over the angular axes raises ValueError on an array with no element
MaxReflectanceRaises(table) == TotalPoints(table.dims) = 0

\* _approximate_brdf_material(brdf_data, material_name); stats_ok is FALSE when
\* a numpy call inside the try block raises for lack of memory. The except
\* branch turns every exception into the default material.
approximate_brdf_material(table, material_name, stats_ok) ==
    IF ~stats_ok \/ MaxReflectanceRaises(table) THEN create_default_material
    ELSE IF detect_metallic(material_name)
    THEN RoughConductor(estimate_roughness(table),
                        guess_metal_type(material_name))
    ELSE Diffuse([c \in 1..3 |-> ClipFloat(table.source.stats.mean[c], 0, 1000)])

\* the first successful load of each path, recorded when it happens
RecordLoad(path, out) ==
    IF path \notin DOMAIN loaded /\ out.ret # <<>>
    THEN SetItem(loaded, path,
                 [table |-> out.ret[1], opened |-> opened[path] + out.opens])
    ELSE loaded

\* the loader state after a call of load_brdf(path) with outcome out
LoaderStep(path, out) ==
    /\ opened[path] + out.opens <= MaxLoads
    /\ brdf_cache' = out.cache
    /\ opened' = [opened EXCEPT ![path] = @ + out.opens]
    /\ loaded' = RecordLoad(path, out)

\* a caller calls MERLBRDFLoader.load_brdf(brdf_path)
LoadBrdf ==
    /\ \E path \in LibBrdfPaths :
          LET out == load_brdf(path)
          IN  /\ LoaderStep(path, out)
              /\ call' = [fn |-> "load_brdf", path |-> path, file |-> files[path],
                          hit |-> out.opens = 0, table |-> out.ret,
                          stats_raised |-> FALSE, ret |-> out.ret,
                          raised |-> "none"]
    /\ UNCHANGED <<orchVars, batchVars, mesh, web, threads>>

\* MitsubaBRDFRenderer.create_brdf_material(brdf_path, Path(brdf_path).stem),
\* as create_scene calls it; the renderer exists only when Mitsuba does
CreateBrdfMaterial ==
    /\ MITSUBA_AVAILABLE
    /\ \E path \in LibBrdfPaths, stats_ok \in BOOLEAN :
          LET out == load_brdf(path)
              material_name == PathStem(path)
          IN  /\ out.ret = <<>> => stats_ok
              /\ LoaderStep(path, out)
              /\ call' = [fn |-> "create_brdf_material", path |-> path,
                          file |-> files[path], hit |-> out.opens = 0,
                          table |-> out.ret,
                          stats_raised |-> ~stats_ok,
                          ret |-> <<IF out.ret = <<>>
                                    THEN create_default_material
                                    ELSE approximate_brdf_material(
                                            out.ret[1], material_name, stats_ok)>>,
                          raised |-> "none"]
    /\ UNCHANGED <<orchVars, batchVars, mesh, web, threads>>

\* PhotometricStereoDataGenerator._create_simple_material(Path(brdf_path).stem,
\* brdf_path), as the render steps call it; it reads the file itself and never
\* uses the loader
CreateSimpleMaterial ==
    /\ \E path \in LibBrdfPaths :
          call' = [fn |-> "_create_simple_material", path |-> path,
                   file |-> files[path], hit |-> FALSE,
                   table |-> <<>>, stats_raised |-> FALSE,
                   ret |-> <<create_simple_material(PathStem(path), files[path])>>,
                   raised |-> "none"]
    /\ UNCHANGED <<orchVars, batchVars, mesh, web, brdf_cache, opened, loaded, threads>>

\* what a BRDF path can name: nothing, a table of the standard resolution, the
\* same cut short by one double, and a file shorter than its header
BrdfContents ==
    {MissingFile,
     BrdfFile(StandardDims, StandardDoubles, 999),
     BrdfFile(StandardDims, StandardDoubles - 1, 999),
     BrdfFile(<<>>, 0, 0)}

\* the environment replaces, removes or creates a BRDF file
ReplaceBrdfFile ==
    /\ \E path \in LibBrdfPaths, content \in BrdfContents :
          /\ content # files[path]
          /\ files' = [files EXCEPT ![path] = content]
    /\ UNCHANGED <<MITSUBA_AVAILABLE, disk, runCount, pc, kind, dataset_name,
                   obj_path, brdf_path, args, light_positions, lights, k, result,
                   renderLog, warnings, lastRun>>
    /\ UNCHANGED <<batchVars, mesh, web, brdfVars>>

NextBrdf ==
    \/ LoadBrdf
    \/ CreateBrdfMaterial
    \/ CreateSimpleMaterial
    \/ ReplaceBrdfFile

SpecBrdf == Init /\ [][NextBrdf]_vars

----------------------------------------------------------------------------
(* The material functions on their own: any name, any table *)

\* material names: one per keyword of the metal tables, a metal name with no
\* keyword of the preset table, and a name that is not a metal
MaterialNames ==
    {<<"g", "o", "l", "d">>,
     <<"s", "i", "l", "v", "e", "r">>,
     <<"c", "o", "p", "p", "e", "r">>,
     <<"a", "l", "u", "m", "i", "n">>,
     <<"c", "h", "r", "o", "m", "e">>,
     <<"n", "i", "c", "k", "e", "l">>,
     <<"b", "r", "a", "s", "s">>,
     <<"s", "t", "e", "e", "l">>,
     <<"r", "e", "d">>}

\* statistics of a table holding a nan double (np.maximum(nan, 0.0) is nan and
\* every mean or deviation over it is nan), of a table of zeros, and of a
\* table of large values
NaNStats == [mean |-> <<NaN, Rat(23, 1000), Rat(33, 1000)>>, std |-> NaN]
ZeroStats == [mean |-> <<Rat(0, 1000), Rat(0, 1000), Rat(0, 1000)>>, std |-> Rat(0, 1000)]
LargeStats ==
    [mean |-> <<Rat(1500, 1000), Rat(1725, 1000), Rat(2490, 1000)>>,
     std |-> Rat(300, 1000)]

\* the readable table files: standard ones with the doubles above, and one
\* whose header gives no point at all
TableFiles ==
    {BrdfFile(StandardDims, StandardDoubles, 999),
     BrdfFileWithStats(StandardDims, StandardDoubles, 999, NaNStats),
     BrdfFileWithStats(StandardDims, StandardDoubles, 0, ZeroStats),
     BrdfFileWithStats(StandardDims, StandardDoubles, 999999, LargeStats),
     BrdfFile(<<0, 0, 0>>, 0, 0)}

\* the arrays load_brdf builds from them
Tables == {Table(file, BrdfC, 1) : file \in TableFiles}

\* MitsubaBRDFRenderer._approximate_brdf_material(brdf_data, material_name)
ApproximateBrdfMaterial ==
    /\ MITSUBA_AVAILABLE
    /\ \E material_name \in MaterialNames, table \in Tables, stats_ok \in BOOLEAN :
          call' = [fn |-> "_approximate_brdf_material", name |-> material_name,
                   file |-> table.source, table |-> <<table>>,
                   stats_raised |-> ~stats_ok \/ MaxReflectanceRaises(table),
                   ret |-> <<approximate_brdf_material(table, material_name,
                                                       stats_ok)>>,
                   raised |-> "none"]
    /\ UNCHANGED <<orchVars, batchVars, mesh, web, brdf_cache, opened, loaded, threads>>

\* PhotometricStereoDataGenerator._create_simple_material(brdf_name, brdf_path)
\* with brdf_path naming any file or none
SimpleMaterial ==
    /\ \E brdf_name \in MaterialNames, file \in TableFiles \cup BrdfContents :
          call' = [fn |-> "_create_simple_material", name |-> brdf_name,
                   file |-> file, table |-> <<>>, stats_raised |-> FALSE,
                   ret |-> <<create_simple_material(brdf_name, file)>>,
                   raised |-> "none"]
    /\ UNCHANGED <<orchVars, batchVars, mesh, web, brdf_cache, opened, loaded, threads>>

NextMaterial ==
    \/ ApproximateBrdfMaterial
    \/ SimpleMaterial

SpecMaterial == Init /\ [][NextMaterial]_vars

----------------------------------------------------------------------------
(* load_brdf called from several threads on one loader *)

\* load_brdf holds no lock: another thread can run between the membership
\* test, the read of the file and the store into the cache. A thread's steps:

\* "if brdf_path in self.brdf_cache: return self.brdf_cache[brdf_path]", or
\* the test fails and the thread goes on to the try block
ThreadCheckCache(t, path) ==
    /\ threads[t].pc \in {"idle", "returned"}
    /\ threads' = [threads EXCEPT ![t] =
          IF path \in DOMAIN brdf_cache
          THEN [pc |-> "returned", path |-> path, opens |-> 0,
                ret |-> <<brdf_cache[path]>>]
          ELSE [pc |-> "miss", path |-> path]]
    /\ UNCHANGED <<brdf_cache, opened, loaded>>

\* the with block up to np.maximum: the file is opened, read and parsed into
\* a new array; an exception is caught and None returned
ThreadReadFile(t) ==
    LET path == threads[t].path
    IN  /\ threads[t].pc = "miss"
        /\ opened[path] < MaxLoads
        /\ opened' = [opened EXCEPT ![path] = @ + 1]
        /\ threads' = [threads EXCEPT ![t] =
              IF BrdfReadRaises(files[path])
              THEN [pc |-> "returned", path |-> path, opens |-> 1, ret |-> <<>>]
              ELSE [pc |-> "parsed", path |-> path,
                    brdf_data |-> Table(files[path], path, opened[path] + 1)]]
        /\ UNCHANGED <<brdf_cache, loaded>>

\* "self.brdf_cache[brdf_path] = brdf_data" and "return brdf_data"
ThreadStore(t) ==
    LET path == threads[t].path
        brdf_data == threads[t].brdf_data
    IN  /\ threads[t].pc = "parsed"
        /\ brdf_cache' = SetItem(brdf_cache, path, brdf_data)
        /\ loaded' = IF path \in DOMAIN loaded THEN loaded
                      ELSE SetItem(loaded, path,
                                   [table |-> brdf_data, opened |-> opened[path]])
        /\ threads' = [threads EXCEPT ![t] =
              [pc |-> "returned", path |-> path, opens |-> 1,
               ret |-> <<brdf_data>>]]
        /\ UNCHANGED opened

CheckCache ==
    /\ \E t \in Threads, path \in LibBrdfPaths : ThreadCheckCache(t, path)
    /\ UNCHANGED <<orchVars, batchVars, mesh, web, call>>

ReadFile ==
    /\ \E t \in Threads : ThreadReadFile(t)
    /\ UNCHANGED <<orchVars, batchVars, mesh, web, call>>

Store ==
    /\ \E t \in Threads : ThreadStore(t)
    /\ UNCHANGED <<orchVars, batchVars, mesh, web, call>>

NextLoaderThreads ==
    \/ CheckCache
    \/ ReadFile
    \/ Store

SpecLoaderThreads == Init /\ [][NextLoaderThreads]_vars

----------------------------------------------------------------------------
(* Web render controller: web_render.py *)

\* f"web_render_{params['obj_name']}_{params['brdf_name']}": the dataset
\* directory the render thread of a request writes
WebDatasetName(params) == <<"web_render_", params.obj_name, "_", params.brdf_name>>

\* the condition of start_render's first statement:
\* self.current_render_task and self.current_render_task.is_alive()
RenderInProgress ==
    /\ web.current_render_task # NoTask
    /\ web.tasks[web.current_render_task].state = "alive"

\* The route start_render calls controller.start_render(params) on the thread
\* that handles the request. The controller holds no lock, so the statements
\* of two handlers interleave.

\* "if self.current_render_task and self.current_render_task.is_alive():
\* return False, ..."
HandlerCheck(h, params) ==
    /\ web.handlers[h].pc \in {"idle", "returned", "raised"}
    /\ RenderInProgress \/ Len(web.tasks) < MaxTasks
    /\ web' = [web EXCEPT !.handlers[h] =
          IF RenderInProgress
          THEN [pc |-> "returned", params |-> params, success |-> FALSE]
          ELSE [pc |-> "create", params |-> params]]

\* "self.current_render_task = threading.Thread(target=self._render_thread,
\* args=(params,))": a new thread object, not started yet
HandlerCreate(h) ==
    /\ web.handlers[h].pc = "create"
    /\ web' = [web EXCEPT
          !.tasks = Append(@, [state |-> "created", createdBy |-> h,
                               dataset |-> WebDatasetName(web.handlers[h].params)]),
          !.current_render_task = Len(web.tasks) + 1,
          !.handlers[h].pc = "start"]

\* "self.current_render_task.start()": the attribute is read again, so the
\* thread started is the one stored last; Thread.start() raises RuntimeError
\* on a thread that was started before
HandlerStart(h) ==
    LET task == web.current_render_task
    IN  /\ web.handlers[h].pc = "start"
        /\ web' = IF web.tasks[task].state = "created"
                  THEN [web EXCEPT !.tasks[task].state = "alive",
                                   !.handlers[h] = [pc |-> "returned",
                                                    params |-> @.params,
                                                    success |-> TRUE]]
                  ELSE [web EXCEPT !.handlers[h] = [pc |-> "raised",
                                                    params |-> @.params]]

\* _render_thread returns: the render is done or has failed
RenderThreadEnd(task) ==
    /\ web.tasks[task].state = "alive"
    /\ web' = [web EXCEPT !.tasks[task].state = "finished"]

StartRenderCheck ==
    /\ \E h \in Handlers, params \in RenderParams : HandlerCheck(h, params)
    /\ UNCHANGED <<orchVars, batchVars, mesh, brdfVars>>

StartRenderCreate ==
    /\ \E h \in Handlers : HandlerCreate(h)
    /\ UNCHANGED <<orchVars, batchVars, mesh, brdfVars>>

StartRenderStart ==
    /\ \E h \in Handlers : HandlerStart(h)
    /\ UNCHANGED <<orchVars, batchVars, mesh, brdfVars>>

RenderThreadReturns ==
    /\ \E task \in 1..Len(web.tasks) : RenderThreadEnd(task)
    /\ UNCHANGED <<orchVars, batchVars, mesh, brdfVars>>

NextWeb ==
    \/ StartRenderCheck
    \/ StartRenderCreate
    \/ StartRenderStart
    \/ RenderThreadReturns

SpecWeb == Init /\ [][NextWeb]_vars

----------------------------------------------------------------------------
(* The structure check of test_dataset_generator.py *)

\* test_dataset_structure(dataset_path): each failed check returns False, as
\* does an exception while the configuration is read
test_dataset_structure(dir) ==
    /\ dir.images_dir
    /\ dir.output_dir
    /\ dir.config # <<>>
    /\ ~SafeLoadRaises(dir.config[1].content)
    /\ {"camera", "lights", "reconstruction"} \subseteq DOMAIN dir.config[1].content
    /\ LET num_lights == dir.config[1].content.lights.count
       IN  \A i \in 1..num_lights :
              FileExists(dir, LightFileJpg(i)) \/ FileExists(dir, LightFile(i))
    /\ FileExists(dir, NormalFile)

----------------------------------------------------------------------------
(* Properties of one generation run *)

\* the number of lights of the current run
NumLights == IF kind = "single" THEN Len(light_positions) ELSE Len(lights)

\* the directory of the current run
RunDir == disk[dataset_name]

\* the files of the current run's directory that the current run wrote
WrittenByRun == {f \in RunDir.images : f.writtenBy = runCount}

\* a run is in progress or has ended
RunStarted == runCount > 0

\* every render step of the current run has succeeded
RunComplete == pc = "returned" /\ result

\* C1 (as claimed): config.yaml is written only after every light render and
\* the normal-map render have succeeded, so whenever a config.yaml written by
\* the current run exists, the run is complete.
C1_ConfigOnlyAfterAllRenders ==
    (RunStarted /\ RunDir.config # <<>> /\ RunDir.config[1].writtenBy = runCount)
        => RunComplete

\* the log positions of the failed light renders of the current run
FailedLights ==
    {j \in 1..Len(renderLog) : renderLog[j].step = "light" /\ ~renderLog[j].ok}

\* C2: if the render of light k fails in generate_single_dataset, nothing is
\* rendered after it (no later light, no normal map), light_1..light_(k-1)
\* written by the run are on disk, no later image of the run is, and the run
\* has returned False.
C2_LightFailureAborts ==
    (RunStarted /\ kind = "single") =>
        \A j \in FailedLights :
            LET failed == renderLog[j].index
            IN  /\ j = Len(renderLog)
                /\ failed = j
                /\ \A i \in 1..(failed - 1) :
                      /\ renderLog[i] = LogEntry("light", i, TRUE)
                      /\ \E f \in WrittenByRun : f.file = LightFile(i)
                /\ \A f \in WrittenByRun :
                      /\ f.file # NormalFile
                      /\ \A i \in failed..Len(light_positions) : f.file # LightFile(i)
                /\ pc = "returned"
                /\ result = FALSE

\* C2 witness: light 2 of a single run failed after light 1 was written
C2_Witness ==
    /\ RunStarted /\ kind = "single"
    /\ Len(renderLog) = 2 /\ ~renderLog[2].ok
    /\ \E f \in WrittenByRun : f.file = LightFile(1)

\* the scene the current run renders for its i-th light
SceneOfLight(i) ==
    IF kind = "single"
    THEN LightScene(light_positions[i], obj_path, RunMaterial(brdf_path))
    ELSE CustomLightScene(lights[i], obj_path, RunMaterial(brdf_path))

\* C3: the render steps of a run happen in the order light 1, ..., light N,
\* normal map; the j-th step renders the j-th entry of the light set and writes
\* it under the 1-based index j; a step is taken only after every earlier one
\* succeeded, so the normal map is rendered only after all N lights.
C3_RenderOrder ==
    RunStarted =>
        /\ Len(renderLog) <= NumLights + 1
        /\ \A j \in 1..Len(renderLog) :
              /\ renderLog[j] \in
                    IF j <= NumLights
                    THEN {LogEntry("light", j, ok) : ok \in BOOLEAN}
                    ELSE {LogEntry("normal", 0, ok) : ok \in BOOLEAN}
              /\ j > 1 => renderLog[j - 1].ok
              /\ (j <= NumLights /\ renderLog[j].ok) =>
                    \E f \in WrittenByRun :
                        f.file = LightFile(j) /\ f.scene = SceneOfLight(j)
        /\ \A f \in WrittenByRun :
              \E j \in 1..Len(renderLog) :
                  /\ renderLog[j].ok
                  /\ f.file = IF j <= NumLights THEN LightFile(j) ELSE NormalFile

\* C3 witness: a run with two lights has rendered both and then the normal map
C3_Witness ==
    /\ RunStarted /\ NumLights = 2 /\ Len(renderLog) = 3
    /\ renderLog[3] = LogEntry("normal", 0, TRUE)

\* C4: a run first deletes and recreates images/, so in every dataset directory
\* images/ holds only files written by the most recent run for that name, and
\* config.yaml is never newer than that run and is the current run's own once
\* the current run has written one.
C4_ImagesFromMostRecentRun ==
    /\ \A name \in DatasetNames :
          /\ \A f \in disk[name].images : f.writtenBy = lastRun[name]
          /\ disk[name].config # <<>> =>
                disk[name].config[1].writtenBy \in 1..lastRun[name]
    /\ (RunStarted /\ pc # "raised") =>
          (RunDir.config # <<>> /\ RunDir.config[1].writtenBy = runCount)

\* C4 witness: the second run for one name has ended after writing images,
\* while no other name was ever used
C4_Witness ==
    /\ runCount = 2 /\ pc = "returned"
    /\ lastRun[dataset_name] = 2
    /\ \A name \in DatasetNames \ {dataset_name} : lastRun[name] = 0
    /\ RunDir.images # {}

\* C7 (as claimed): the directory left by a successful run of either generator
\* passes the structure check and its lights.count is the number of lights.
C7_SuccessfulRunPassesStructureCheck ==
    (RunStarted /\ RunComplete) =>
        /\ test_dataset_structure(RunDir)
        /\ RunDir.config[1].content.lights.count = NumLights

\* C8: in a single run the written configuration agrees with the renders:
\* lights.count = N, light_i is a key of positions (holding the i-th sampled
\* position) and of intensities for i in 1..N, input_images has N entries, and
\* every light image on disk is the file the i-th entry names, rendered with
\* the position stored under light_i.
C8_ConfigAgreesWithRenders ==
    (RunStarted /\ kind = "single" /\ pc # "raised") =>
        LET config == RunDir.config[1].content
            N == Len(light_positions)
        IN  /\ config.lights.count = N
            /\ Len(config.reconstruction.input_images) = N
            /\ \A i \in 1..N :
                  /\ LightName(i) \in DOMAIN config.lights.positions
                  /\ config.lights.positions[LightName(i)] = light_positions[i]
                  /\ LightName(i) \in DOMAIN config.lights.intensities
            /\ \A f \in RunDir.images :
                  f.file # NormalFile =>
                      \E i \in 1..N :
                          /\ FileOf(config.reconstruction.input_images[i]) = f.file
                          /\ config.lights.positions[LightName(i)]
                                = f.scene.light.position

\* C8 witness: a single run with two lights has written both light images
C8_Witness ==
    /\ RunStarted /\ kind = "single" /\ Len(light_positions) = 2
    /\ \E f \in WrittenByRun : f.file = LightFile(2)

----------------------------------------------------------------------------
(* Properties of generate_batch_datasets *)

\* the smaller of two numbers
Min(a, b) == IF a < b THEN a ELSE b

\* the last attempt that used the dataset name
LastAttemptOf(name) ==
    CHOOSE p \in 1..Len(attempts) :
        /\ attempts[p].name = name
        /\ \A q \in 1..Len(attempts) : attempts[q].name = name => q <= p

C6_DistinctPairsDistinctNames ==
    \A p, q \in 1..Len(attempts) :
        (attempts[p].obj # attempts[q].obj \/ attempts[p].brdf # attempts[q].brdf)
            => attempts[p].name # attempts[q].name

----------------------------------------------------------------------------
(* Properties of the mesh generators *)

MeshWritten == mesh.pc = "returned" /\ mesh.written

\* the subdivision counts the generator was given are all at least 1
SubdivisionsValid ==
    CASE mesh.shape = "cube" -> TRUE
      [] mesh.shape = "torus" ->
            mesh.params.subdivisions >= 1 /\ mesh.params.subdivisions2 >= 1
      [] OTHER -> mesh.params.subdivisions >= 1

\* C9: for every generator called with subdivision counts >= 1, every index of
\* every emitted face line lies in [1, number of emitted vertex lines].
C9_FaceIndicesInRange ==
    (MeshWritten /\ SubdivisionsValid) =>
        LET flines == FileLines("f")
            nv == Len(FileLines("v"))
        IN  \A n \in 1..Len(flines) :
                \A c \in 2..4 : flines[n][c] \in 1..nv

\* C9 witness: a sphere with a wrap-around column and faces was written
C9_Witness ==
    /\ MeshWritten /\ mesh.shape = "sphere" /\ mesh.params.subdivisions = 2
    /\ Len(FileLines("f")) > 0

\* C10 (as claimed): a sphere with subdivisions s has (s+1)*(2s) vertices and
\* 2s(2s-2) + 2(2s) faces.
C10_SphereCountsAsClaimed ==
    (MeshWritten /\ mesh.shape = "sphere") =>
        LET sub == mesh.params.subdivisions
        IN  /\ Len(FileLines("v")) = (sub + 1) * (2 * sub)
            /\ Len(FileLines("f")) = 2 * sub * (2 * sub - 2) + 2 * (2 * sub)

\* C10 (amended): a sphere with subdivisions s >= 1 has (s+1)*(2s) vertices;
\* it has 2s(2s-4) + 2(2s) faces for s >= 2 (two pole rows of one triangle per
\* quad, s-2 interior rows of two) and 2s faces for s = 1 (one pole row).
C10_SphereCounts ==
    (MeshWritten /\ mesh.shape = "sphere") =>
        LET sub == mesh.params.subdivisions
        IN  /\ Len(FileLines("v")) = (sub + 1) * (2 * sub)
            /\ Len(FileLines("f")) =
                  IF sub = 1 THEN 2 * sub
                  ELSE 2 * sub * (2 * sub - 4) + 2 * (2 * sub)

\* C10 witness: a sphere with an interior row was written
C10_Witness ==
    MeshWritten /\ mesh.shape = "sphere" /\ mesh.params.subdivisions = 3

\* the coordinates written on the n-th vertex line of the file
VertexOfLine(n) == FileLines("v")[n][2][2]

\* the face lines whose three vertices all have the given value of the given
\* coordinate (1: x, 2: y, 3: z)
TrianglesOn(axis, value) ==
    {n \in 1..Len(FileLines("f")) :
        \A c \in 2..4 : VertexOfLine(FileLines("f")[n][c])[axis] = value}

\* C11 (as claimed): a cube of positive size is written as 8 vertex lines and
\* 12 face lines; each triangle's three vertices share the value of one
\* coordinate, and each of the six faces of the cube (a coordinate at -size/2
\* or at +size/2) carries exactly two triangles.
C11_CubeTwoTrianglesPerFace ==
    (MeshWritten /\ mesh.shape = "cube" /\ mesh.params.size > 0) =>
        LET size == mesh.params.size
        IN  /\ Len(FileLines("v")) = 8
            /\ Len(FileLines("f")) = 12
            /\ \A n \in 1..Len(FileLines("f")) :
                  \E axis \in 1..3, value \in {Rat(-size, 2), Rat(size, 2)} :
                      n \in TrianglesOn(axis, value)
            /\ \A axis \in 1..3, value \in {Rat(-size, 2), Rat(size, 2)} :
                  Cardinality(TrianglesOn(axis, value)) = 2

\* the last generator call was given a subdivision count below 1 or a
\* non-positive radius
MeshParamsInvalid ==
    /\ mesh.pc # "idle"
    /\ \/ ~SubdivisionsValid
       \/ mesh.shape \in {"sphere", "cylinder"} /\ mesh.params.size <= 0
       \/ mesh.shape = "torus"
            /\ (mesh.params.size <= 0 \/ mesh.params.size2 <= 0)

\* C12 (as claimed): a generator called with invalid parameters raises (the
\* error leaves the generator), writes no mesh file and does not report
\* success.
C12_InvalidParametersRaise ==
    MeshParamsInvalid =>
        /\ mesh.pc = "raised"
        /\ ~mesh.written
        /\ ~mesh.result

----------------------------------------------------------------------------
(* Properties of the light sampler *)

\* a single run has got past its call of generate_light_positions
LightsSampled == RunStarted /\ kind = "single" /\ pc # "raised"

\* C13: for the patterns hemisphere, circle and grid and every n >= 0,
\* generate_light_positions(n, distance, pattern) returns a sequence of
\* exactly n positions, each of three coordinates.
C13_LightPositionsCount ==
    (LightsSampled /\ args.light_pattern \in KnownPatterns
        /\ args.num_lights >= 0) =>
        /\ DOMAIN light_positions = 1..args.num_lights
        /\ \A i \in 1..Len(light_positions) : Len(light_positions[i]) = 3

\* C13 witness: two lights were sampled on the grid, which has four cells
C13_Witness ==
    /\ LightsSampled /\ args.light_pattern = "grid" /\ args.num_lights = 2
    /\ Len(light_positions) = 2

\* C14 (as claimed): a pattern other than hemisphere, circle or grid makes
\* generate_light_positions raise, and the run given it is not successful.
C14_UnknownPatternRaises ==
    (RunStarted /\ kind = "single" /\ args.light_pattern \notin KnownPatterns) =>
        /\ pc = "raised"
        /\ ~RunComplete

----------------------------------------------------------------------------
(* Properties of the scenes *)

\* the builtin sphere of radius 1 centred at the origin
IsUnitSphere(object) ==
    /\ object.type = "sphere"
    /\ object.center = <<0, 0, 0>>
    /\ object.radius = Rat(1, 1)

\* C15 (as claimed): when the mesh file of a run does not exist, every image
\* the run renders comes from a scene with the unit sphere in place of the
\* mesh, and the substitution is logged as a warning.
C15_MissingMeshSphereWithWarning ==
    (RunStarted /\ ~files[obj_path].exists /\ WrittenByRun # {}) =>
        /\ \A f \in WrittenByRun : IsUnitSphere(f.scene.object)
        /\ \E i \in 1..Len(warnings) : warnings[i].event = "mesh_missing"

\* the normal maps on disk, in any dataset directory
NormalMaps ==
    UNION {{f \in disk[name].images : f.file = NormalFile} : name \in DatasetNames}

\* C16: the normal-map scene does not depend on the BRDF: normal maps written
\* by runs with the same obj_path come from identical scenes whatever their
\* brdf_path, and every normal-map scene uses the fixed neutral diffuse
\* material and the surface-normal (aov sh_normal) integrator.
C16_NormalSceneIndependentOfBrdf ==
    /\ \A f1, f2 \in NormalMaps : f1.runObj = f2.runObj => f1.scene = f2.scene
    /\ \A f \in NormalMaps :
          /\ f.scene.object.bsdf = NeutralDiffuse
          /\ f.scene.integrator = [type |-> "aov", aovs |-> "sh_normal:sh_normal"]

\* C16 witness: two normal maps on disk were written by runs with the same
\* mesh and different BRDF files, whose light-render materials differ
C16_Witness ==
    \E f1, f2 \in NormalMaps :
        /\ f1.runObj = f2.runObj
        /\ f1.runBrdf # f2.runBrdf
        /\ RunMaterial(f1.runBrdf) # RunMaterial(f2.runBrdf)

----------------------------------------------------------------------------
(* Properties of the BRDF loader and of the material functions *)

\* C17: after one successful load of a path, the cache holds the table of
\* that load for good, the file is never opened again by a load of that path,
\* and every later load_brdf of the path returns that very table, whatever is
\* loaded or replaced in between.
C17_LoadIdempotent ==
    \A path \in DOMAIN loaded :
        /\ path \in DOMAIN brdf_cache
        /\ brdf_cache[path] = loaded[path].table
        /\ opened[path] = loaded[path].opened
        /\ (call.fn = "load_brdf" /\ call.path = path) =>
              call.ret = <<loaded[path].table>>

\* C17 witness: a load was answered from the cache although the file has been
\* removed since, with a second path loaded as well
C17_Witness ==
    /\ call.fn = "load_brdf" /\ call.hit
    /\ ~files[call.path].exists
    /\ Cardinality(DOMAIN loaded) >= 2

\* C18 (as claimed): a load_brdf that cannot read its file fails with IOError
\* when the file is missing and with FormatError when it is too short or not
\* decodable.
C18_LoadFailuresAreDistinctErrors ==
    (call.fn = "load_brdf" /\ ~call.hit /\ BrdfReadRaises(call.file)) =>
        call.raised = IF call.file.exists THEN "FormatError" ELSE "IOError"

\* the material is the neutral diffuse one with albedo (0.8, 0.8, 0.8)
IsDefaultNeutral(material) ==
    /\ material.type = "diffuse"
    /\ \A c \in 1..3 :
          material.reflectance.value[c][2] * 10
              = 8 * material.reflectance.value[c][3]

\* the call derived a material without a usable table: the renderer's loader
\* returned None or its statistics raised; the dataset generator's file is
\* missing or unreadable
NoTableAvailable ==
    \/ /\ call.fn = "create_brdf_material"
       /\ (call.table = <<>> \/ call.stats_raised)
    \/ /\ call.fn = "_create_simple_material"
       /\ BrdfReadRaises(call.file)

\* C19 (as claimed): when no table is available or the statistics raise, the
\* material function raises nothing and returns the default neutral diffuse
\* material (0.8, 0.8, 0.8).
C19_FallbackIsDefaultMaterial ==
    NoTableAvailable =>
        /\ call.raised = "none"
        /\ IsDefaultNeutral(call.ret[1])

\* the call derived a material for the name gold_ring from a readable table
GoldRingApproximated ==
    /\ call.fn \in {"create_brdf_material", "_create_simple_material"}
    /\ PathStem(call.path) = <<"g", "o", "l", "d", "_", "r", "i", "n", "g">>
    /\ ~BrdfReadRaises(call.file)
    /\ ~call.stats_raised
    /\ call.fn = "create_brdf_material" => call.table # <<>>

\* C20 (as claimed): the material approximated for the name gold_ring from a
\* loaded table is a rough conductor with the preset Au.
C20_GoldRingIsAu ==
    GoldRingApproximated =>
        /\ call.ret[1].type = "roughconductor"
        /\ "material" \in DOMAIN call.ret[1]
        /\ call.ret[1].material = "Au"

----------------------------------------------------------------------------
(* Properties of the material functions *)

\* the last call approximated a material and classified the name as metallic:
\* both functions return a rough conductor exactly then
MetalApproximated ==
    /\ call.fn \in {"_approximate_brdf_material", "_create_simple_material"}
    /\ ~call.stats_raised
    /\ call.ret[1].type = "roughconductor"

\* the preset table: keyword -> preset name
PresetTable ==
    <<<<<<"g", "o", "l", "d">>, "Au">>,
      <<<<"s", "i", "l", "v", "e", "r">>, "Ag">>,
      <<<<"c", "o", "p", "p", "e", "r">>, "Cu">>,
      <<<<"a", "l", "u", "m", "i", "n">>, "Al">>,
      <<<<"c", "h", "r", "o", "m", "e">>, "Cr">>,
      <<<<"n", "i", "c", "k", "e", "l">>, "Ni">>>>

\* C21 (as claimed): for a name classified as metallic, a name containing a
\* keyword of the preset table gets that keyword's preset, a name containing
\* brass gets explicit eta and k and no preset, and a name containing none of
\* these gets the preset Al.
C21_MetalPresetTable ==
    MetalApproximated =>
        LET material == call.ret[1]
            name_lower == Lower(call.name)
            rows == {n \in 1..Len(PresetTable) :
                        Contains(name_lower, PresetTable[n][1])}
        IN  IF rows # {}
            THEN /\ "material" \in DOMAIN material
                 /\ \E n \in rows : material.material = PresetTable[n][2]
            ELSE IF Contains(name_lower, <<"b", "r", "a", "s", "s">>)
            THEN /\ "material" \notin DOMAIN material
                 /\ {"eta", "k"} \subseteq DOMAIN material
            ELSE /\ "material" \in DOMAIN material
                 /\ material.material = "Al"

----------------------------------------------------------------------------
(* Properties of concurrent loads *)

\* the threads that have returned from a load of the path
Returned(path) ==
    {t \in Threads : threads[t].pc = "returned" /\ threads[t].path = path}

\* C22 (as claimed): a readable file is opened and parsed at most once however
\* the threads' loads of its path interleave, and every load of the path
\* returns the same table object.
C22_CachePopulationIsCriticalSection ==
    \A path \in LibBrdfPaths :
        ~BrdfReadRaises(files[path]) =>
            /\ opened[path] <= 1
            /\ \A t1, t2 \in Returned(path) : threads[t1].ret = threads[t2].ret

----------------------------------------------------------------------------
(* Properties of a cancelled run *)

\* the current run was cancelled: the last entry of its log is the interrupt
Cancelled ==
    /\ RunStarted
    /\ renderLog # <<>>
    /\ renderLog[Len(renderLog)].step = "interrupt"

\* C23 (as claimed): once cancellation is signalled between two steps, the run
\* performs no further render step, ends as failed, and has not written (and
\* never writes) its config.yaml.
C23_CancelledRunWritesNoConfig ==
    Cancelled =>
        /\ pc = "raised"
        /\ ~result
        /\ ~(RunDir.config # <<>> /\ RunDir.config[1].writtenBy = runCount)

----------------------------------------------------------------------------
(* Properties of the triangulations *)

\* the three indices written on the n-th face line of the file
FaceOfLine(n) ==
    LET line == FileLines("f")[n]
    IN  <<line[2], line[3], line[4]>>

\* the set of indices of a face
Corners(face) == {face[1], face[2], face[3]}

\* the number of triangles per quad of sphere row i: one in the two pole rows
TrianglesPerQuad(sub, i) == IF i = 0 \/ i = sub - 1 THEN 1 ELSE 2

RECURSIVE FacesBeforeRow(_, _)
\* the number of face lines of the rows before row i
FacesBeforeRow(sub, i) ==
    IF i = 0 THEN 0
    ELSE FacesBeforeRow(sub, i - 1) + 2 * sub * TrianglesPerQuad(sub, i - 1)

\* the 1-based file indices of the vertices (i, j), (i, j+1), (i+1, j+1) and
\* (i+1, j) of the sphere grid, columns wrapping around
SphereQuad(sub, i, j) ==
    [v1 |-> i * (2 * sub) + j + 1,
     v2 |-> i * (2 * sub) + ((j + 1) % (2 * sub)) + 1,
     v3 |-> (i + 1) * (2 * sub) + ((j + 1) % (2 * sub)) + 1,
     v4 |-> (i + 1) * (2 * sub) + j + 1]

\* C24: in a sphere with subdivisions s >= 1, every quad of the rows i = 0 and
\* i = s - 1 contributes exactly one triangle, with three pairwise distinct
\* indices, and every quad of an interior row contributes exactly two
\* triangles that share the diagonal (v2, v4).
C24_SpherePoleRowsOneTriangle ==
    (MeshWritten /\ mesh.shape = "sphere" /\ mesh.params.subdivisions >= 1) =>
        LET sub == mesh.params.subdivisions
        IN  /\ Len(FileLines("f")) = FacesBeforeRow(sub, sub)
            /\ \A i \in 0..(sub - 1), j \in 0..(2 * sub - 1) :
                  LET per == TrianglesPerQuad(sub, i)
                      first == FacesBeforeRow(sub, i) + j * per
                      quad == SphereQuad(sub, i, j)
                  IN  /\ \A n \in 1..per :
                            /\ Cardinality(Corners(FaceOfLine(first + n))) = 3
                            /\ Corners(FaceOfLine(first + n))
                                  \subseteq {quad.v1, quad.v2, quad.v3, quad.v4}
                      /\ per = 2 =>
                            /\ {quad.v2, quad.v4} \subseteq Corners(FaceOfLine(first + 1))
                            /\ {quad.v2, quad.v4} \subseteq Corners(FaceOfLine(first + 2))
                            /\ FaceOfLine(first + 1) # FaceOfLine(first + 2)

\* C24 witness: spheres were written whose pole rows coincide (s = 1) and
\* whose pole rows enclose an interior row (s = 3); this one has the interior
\* row, with its two triangles per quad
C24_Witness ==
    /\ MeshWritten /\ mesh.shape = "sphere" /\ mesh.params.subdivisions = 3
    /\ Len(FileLines("f")) = 6 + 12 + 6
    /\ Corners(FaceOfLine(7)) \cap Corners(FaceOfLine(8)) = {8, 13}

\* the directed edges a face traverses
DirectedEdges(face) ==
    {<<face[1], face[2]>>, <<face[2], face[3]>>, <<face[3], face[1]>>}

\* the face lines of the file that traverse the directed edge
FacesAlong(edge) ==
    {n \in 1..Len(FileLines("f")) : edge \in DirectedEdges(FaceOfLine(n))}

\* every edge of the written mesh belongs to exactly two faces, which traverse
\* it in opposite directions
ClosedConsistentWinding ==
    \A n \in 1..Len(FileLines("f")) :
        /\ Cardinality(DirectedEdges(FaceOfLine(n))) = 3
        /\ \A edge \in DirectedEdges(FaceOfLine(n)) :
              /\ FacesAlong(edge) = {n}
              /\ Cardinality(FacesAlong(<<edge[2], edge[1]>>)) = 1

\* C25: a torus with major count M >= 3 and minor count m >= 3 has M * m
\* vertices and 2 * M * m faces, and every edge is shared by exactly two faces
\* that traverse it in opposite directions, the edges across both seams
\* included.
C25_TorusClosedPeriodic ==
    (MeshWritten /\ mesh.shape = "torus"
        /\ mesh.params.subdivisions >= 3 /\ mesh.params.subdivisions2 >= 3) =>
        LET major == mesh.params.subdivisions
            minor == mesh.params.subdivisions2
        IN  /\ Len(FileLines("v")) = major * minor
            /\ Len(FileLines("f")) = 2 * major * minor
            /\ ClosedConsistentWinding

\* C25 witness: a torus with different major and minor counts was written;
\* the last quad lies across both seams and its second triangle ends at the
\* first vertex of the file
C25_Witness ==
    /\ MeshWritten /\ mesh.shape = "torus"
    /\ mesh.params.subdivisions = 3 /\ mesh.params.subdivisions2 = 4
    /\ FaceOfLine(23) = <<12, 9, 4>>
    /\ FaceOfLine(24) = <<9, 1, 4>>

\* the file indices of the cylinder's vertices: per level the centre, then
\* the s rim points
BottomCentre == 1
BottomRim(sub, i) == 2 + (i % sub)
TopCentre(sub) == sub + 2
TopRim(sub, i) == sub + 3 + (i % sub)

\* the faces along the edge that have the centre as a corner, and those that
\* have no centre as a corner
CapFacesAlong(edge, centre) ==
    {n \in FacesAlong(edge) : centre \in Corners(FaceOfLine(n))}
SideFacesAlong(edge, sub) ==
    {n \in FacesAlong(edge) :
        Corners(FaceOfLine(n)) \cap {BottomCentre, TopCentre(sub)} = {}}

\* C26: a cylinder with subdivisions s >= 3 has 2s + 2 vertices and 4s faces:
\* s triangles per cap and 2s side triangles. The bottom fan goes round the
\* rim against the direction of the top fan, and each rim edge is traversed
\* one way by its cap triangle and the other way by its side triangle.
C26_CylinderCapsAndSides ==
    (MeshWritten /\ mesh.shape = "cylinder" /\ mesh.params.subdivisions >= 3) =>
        LET sub == mesh.params.subdivisions
            faces == 1..Len(FileLines("f"))
        IN  /\ Len(FileLines("v")) = 2 * sub + 2
            /\ Len(FileLines("f")) = 4 * sub
            /\ Cardinality({n \in faces : BottomCentre \in Corners(FaceOfLine(n))}) = sub
            /\ Cardinality({n \in faces : TopCentre(sub) \in Corners(FaceOfLine(n))}) = sub
            /\ Cardinality({n \in faces :
                    Corners(FaceOfLine(n)) \cap {BottomCentre, TopCentre(sub)} = {}})
                  = 2 * sub
            /\ \A i \in 0..(sub - 1) :
                  LET bottom == <<BottomRim(sub, i), BottomRim(sub, i + 1)>>
                      top == <<TopRim(sub, i), TopRim(sub, i + 1)>>
                  IN  /\ Cardinality(CapFacesAlong(<<bottom[2], bottom[1]>>, BottomCentre)) = 1
                      /\ CapFacesAlong(bottom, BottomCentre) = {}
                      /\ Cardinality(SideFacesAlong(bottom, sub)) = 1
                      /\ SideFacesAlong(<<bottom[2], bottom[1]>>, sub) = {}
                      /\ Cardinality(CapFacesAlong(top, TopCentre(sub))) = 1
                      /\ CapFacesAlong(<<top[2], top[1]>>, TopCentre(sub)) = {}
                      /\ Cardinality(SideFacesAlong(<<top[2], top[1]>>, sub)) = 1
                      /\ SideFacesAlong(top, sub) = {}

\* C26 witness: a cylinder with three rim points per cap was written; its
\* first face is the bottom cap triangle over the rim edge from point 1 back
\* to point 0
C26_Witness ==
    /\ MeshWritten /\ mesh.shape = "cylinder" /\ mesh.params.subdivisions = 3
    /\ mesh.params.size > 0
    /\ FaceOfLine(1) = <<1, 3, 2>>
    /\ Len(FileLines("f")) = 12

----------------------------------------------------------------------------
(* Properties of the sampled positions *)

\* the last call sampled n >= 1 lights with the pattern
Sampled(pattern) ==
    /\ call.fn = "generate_light_positions"
    /\ call.pattern = pattern
    /\ call.num_lights >= 1

\* the lattice size: the least g with g * g >= n
LatticeSize(n) == CHOOSE g \in 1..n : g * g >= n /\ (g - 1) * (g - 1) < n

\* the coordinate of lattice line c of g, in units of the distance: the lines
\* are 1/g apart and centred on the origin
LatticeCoordinate(c, g) == Rat(2 * c - g + 1, 2 * g)

\* C27: for the grid pattern with n >= 1 and g = ceil(sqrt(n)), position i
\* lies on lattice cell (row i div g, column i mod g) of a g x g lattice
\* centred on the origin, rows and columns are in [0, g-1], the n cells are
\* pairwise distinct, and every z equals the distance.
C27_GridCells ==
    Sampled("grid") =>
        LET n == call.num_lights
            g == LatticeSize(n)
            positions == call.ret[1]
        IN  /\ Len(positions) = n
            /\ \A i \in 0..(n - 1) :
                  /\ (i \div g) \in 0..(g - 1)
                  /\ (i % g) \in 0..(g - 1)
                  /\ positions[i + 1][1] = LatticeCoordinate(i % g, g)
                  /\ positions[i + 1][2] = LatticeCoordinate(i \div g, g)
                  /\ positions[i + 1][3] = Rat(1, 1)
                  /\ LatticeCoordinate(g - 1 - (i % g), g)
                        = Rat(-positions[i + 1][1][2], positions[i + 1][1][3])
                  /\ LatticeCoordinate(g - 1 - (i \div g), g)
                        = Rat(-positions[i + 1][2][2], positions[i + 1][2][3])
            /\ \A i1, i2 \in 1..n :
                  i1 # i2 =>
                      <<positions[i1][1], positions[i1][2]>>
                          # <<positions[i2][1], positions[i2][2]>>

\* C27 witness: five lights on a 3 x 3 lattice, the fifth in row 1, column 1,
\* which is the origin
C27_Witness ==
    /\ Sampled("grid") /\ call.num_lights = 5
    /\ call.ret[1][5] = <<Rat(0, 6), Rat(0, 6), Rat(1, 1)>>
    /\ call.ret[1][4][2] = Rat(0, 6)

\* the positions of the last call, and the z of its i-th (0-based) light
SampledPositions == call.ret[1]
SampledZ(i) == SampledPositions[i + 1][3]

----------------------------------------------------------------------------
(* Well-formedness of the materials *)

\* x is a number and lo / 1000 <= x <= hi / 1000
InRange(x, lo, hi) ==
    /\ x # NaN
    /\ lo * x[3] <= x[2] * 1000
    /\ x[2] * 1000 <= hi * x[3]

\* the tagged variant: diffuse with an albedo in [0, 1]^3, or rough conductor
\* with a roughness in [0.01, 1] and either a preset or an (eta, k) pair
WellFormedMaterial(material) ==
    \/ /\ material.type = "diffuse"
       /\ \A c \in 1..3 : InRange(material.reflectance.value[c], 0, 1000)
    \/ /\ material.type = "roughconductor"
       /\ InRange(material.alpha, 10, 1000)
       /\ ("material" \in DOMAIN material) # ({"eta", "k"} \subseteq DOMAIN material)
       /\ "material" \in DOMAIN material => {"eta", "k"} \cap DOMAIN material = {}

\* C29 (as claimed): whatever the name and the table, the material returned
\* by _create_simple_material and by _approximate_brdf_material is a
\* well-formed tagged variant.
C29_MaterialWellFormed ==
    call.fn \in {"_approximate_brdf_material", "_create_simple_material"} =>
        WellFormedMaterial(call.ret[1])

----------------------------------------------------------------------------
(* Properties of the web render controller *)

\* the render threads that are running
AliveTasks == {task \in 1..Len(web.tasks) : web.tasks[task].state = "alive"}

\* C30 (as claimed): however the start_render requests interleave, at most
\* one render thread is alive at any time, so no two render threads write the
\* same dataset directory at the same time.
C30_AtMostOneRenderThread ==
    /\ Cardinality(AliveTasks) <= 1
    /\ \A t1, t2 \in AliveTasks :
          t1 # t2 => web.tasks[t1].dataset # web.tasks[t2].dataset

====
